---- MODULE Spec2Model ----
(***************************************************************************)
(* A model of the culebra interpreter (src/language/culebra.h): the tagged  *)
(* Value, the lexical Environment chain, the heap-shared Object / Array /   *)
(* Function payloads, the tree-walking evaluator Eval and the driver run.   *)
(*                                                                          *)
(* The evaluator is a big-step function: every eval_xxx takes an AST node,  *)
(* the id of the environment frame it is evaluated in and the store, and    *)
(* returns a result record [status, val, msg, st].  A C++ exception is a    *)
(* status other than "ok"; it is handed upwards unchanged, which is what    *)
(* stack unwinding does.  The store is threaded through, so every effect    *)
(* made before an exception is thrown stays in the store.                   *)
(***************************************************************************)
EXTENDS Integers, Sequences, FiniteSets, TLC

VARIABLES
    pc,           \* "new" | "ready" | "escaped" | "killed" | "hung"
    envs,         \* heap of Environment frames; frame 1 is the root env
    arrays,       \* heap of ArrayValue::values vectors
    objects,      \* heap of ObjectValue::properties maps
    funcs,        \* heap of FunctionValue payloads
    out,          \* what was written to std::cout, one entry per line
    out_value,    \* the caller's `val` argument of run
    out_message,  \* the caller's `msg` argument of run
    returned,     \* what the last run returned
    prog,         \* the program the last run was given
    log,          \* what the last run did, in order
    runs,         \* number of calls of run so far
    suite         \* the family of programs this execution draws from

vars == <<pc, envs, arrays, objects, funcs, out, out_value, out_message,
          returned, prog, log, runs, suite>>

(***************************************************************************)
(* Bounds of the model.                                                     *)
(***************************************************************************)
\* number of calls of run on one root environment
MaxRuns == 2
\* the same, for the suites that enumerate operand combinations
MaxRunsWide == 1
\* number of eval calls one run may make before it counts as not returning
MaxFuel == 60

(***************************************************************************)
(* Text.  A std::string is the sequence of its character codes.  AST tokens *)
(* are written as TLA+ strings; Chars gives the characters of a token.      *)
(***************************************************************************)
Chars(s) ==
    CASE s = ""          -> <<>>
      [] s = "0"         -> <<48>>
      [] s = "1"         -> <<49>>
      [] s = "2"         -> <<50>>
      [] s = "3"         -> <<51>>
      [] s = "5"         -> <<53>>
      [] s = "7"         -> <<55>>
      [] s = "8"         -> <<56>>
      [] s = "9"         -> <<57>>
      [] s = "10"        -> <<49, 48>>
      [] s = "20"        -> <<50, 48>>
      [] s = "=="        -> <<61, 61>>
      [] s = "!="        -> <<33, 61>>
      [] s = "<="        -> <<60, 61>>
      [] s = "<"         -> <<60>>
      [] s = ">="        -> <<62, 61>>
      [] s = ">"         -> <<62>>
      [] s = "+"         -> <<43>>
      [] s = "-"         -> <<45>>
      [] s = "*"         -> <<42>>
      [] s = "/"         -> <<47>>
      [] s = "%"         -> <<37>>
      [] s = "!"         -> <<33>>
      [] s = "a"         -> <<97>>
      [] s = "b"         -> <<98>>
      [] s = "ab"        -> <<97, 98>>
      [] s = "x"         -> <<120>>
      [] s = "y"         -> <<121>>
      [] s = "size"      -> <<115, 105, 122, 101>>
      [] s = "true"      -> <<116, 114, 117, 101>>
      [] s = "false"     -> <<102, 97, 108, 115, 101>>
      [] s = "undefined" -> <<117, 110, 100, 101, 102, 105, 110, 101, 100>>
      [] s = "[function]" -> <<91, 102, 117, 110, 99, 116, 105, 111, 110, 93>>
      [] s = "mut"       -> <<109, 117, 116>>
      [] s = "{"         -> <<123>>
      [] s = "}"         -> <<125>>
      [] s = "["         -> <<91>>
      [] s = "]"         -> <<93>>
      [] s = ", "        -> <<44, 32>>
      [] s = ": "        -> <<58, 32>>
      [] s = "\""        -> <<34>>

\* std::string::compare: lexicographic on the character codes
RECURSIVE StrLess(_, _)
StrLess(a, b) ==
    IF b = <<>> THEN FALSE
    ELSE IF a = <<>> THEN TRUE
    ELSE IF Head(a) # Head(b) THEN Head(a) < Head(b)
    ELSE StrLess(Tail(a), Tail(b))

\* std::stol on a token of the rule NUMBER <- [0-9]+
RECURSIVE stol_digits(_, _)
stol_digits(cs, acc) ==
    IF cs = <<>> THEN acc
    ELSE stol_digits(Tail(cs), acc * 10 + (Head(cs) - 48))

stol(token) == stol_digits(Chars(token), 0)

\* std::to_string(long)
RECURSIVE to_string_digits(_)
to_string_digits(n) ==
    IF n < 10 THEN <<48 + n>>
    ELSE Append(to_string_digits(n \div 10), 48 + (n % 10))

std_to_string(n) ==
    IF n < 0 THEN <<45>> \o to_string_digits(0 - n) ELSE to_string_digits(n)

(***************************************************************************)
(* Value: the tag, and the payload.  n holds the bool (0 or 1), the long,   *)
(* or the heap reference of the shared payload of an Object, an Array or a  *)
(* Function; s holds the characters of a String.                            *)
(***************************************************************************)
UndefinedV   == [type |-> "Undefined", n |-> 0, s |-> <<>>]
BoolV(b)     == [type |-> "Bool", n |-> IF b THEN 1 ELSE 0, s |-> <<>>]
LongV(l)     == [type |-> "Long", n |-> l, s |-> <<>>]
StringV(cs)  == [type |-> "String", n |-> 0, s |-> cs]
ObjectV(r)   == [type |-> "Object", n |-> r, s |-> <<>>]
ArrayV(r)    == [type |-> "Array", n |-> r, s |-> <<>>]
FunctionV(r) == [type |-> "Function", n |-> r, s |-> <<>>]

\* The text of an exception: what() is `what`, with a name or a position in it
Msg(what, name, line, column) ==
    [what |-> what, name |-> name, line |-> line, column |-> column]
NoMsg               == Msg("", "", 0, 0)
TypeErrorMsg        == Msg("type error.", "", 0, 0)
UndefinedVarMsg(s)  == Msg("undefined variable '", s, 0, 0)
ImmutableVarMsg(s)  == Msg("immutable variable '", s, 0, 0)
ArgumentsErrorMsg   == Msg("arguments error...", "", 0, 0)
AssertFailedMsg(l, c) == Msg("assert failed at ", "", l, c)
InternalMsg         == Msg("invalid internal condition.", "", 0, 0)
InvalidAstMsg       == Msg("invalid Ast type", "", 0, 0)
OutOfRangeMsg       == Msg("map::at", "", 0, 0)

\* A coercion: either the converted value or a thrown exception.
\* exc is "none", "runtime_error" (std::runtime_error) or "logic_error"
\* (std::logic_error and its subclass std::out_of_range).
Conv(r)   == [exc |-> "none", r |-> r, l |-> 0, cs |-> <<>>]
ConvL(l)  == [exc |-> "none", r |-> FALSE, l |-> l, cs |-> <<>>]
ConvS(cs) == [exc |-> "none", r |-> FALSE, l |-> 0, cs |-> cs]
ConvThrow(e) == [exc |-> e, r |-> FALSE, l |-> 0, cs |-> <<>>]

to_bool(v) ==
    CASE v.type = "Bool" -> Conv(v.n = 1)
      [] v.type = "Long" -> Conv(v.n # 0)
      [] OTHER           -> ConvThrow("runtime_error")

\* to_long that rejects a Bool
to_long_strict(v) ==
    CASE v.type = "Long" -> ConvL(v.n)
      [] OTHER           -> ConvThrow("runtime_error")

to_long(v) ==
    CASE v.type = "Bool" -> ConvL(v.n)
      [] v.type = "Long" -> ConvL(v.n)
      [] OTHER           -> ConvThrow("runtime_error")

to_string(v) ==
    CASE v.type = "String" -> ConvS(v.s)
      [] OTHER             -> ConvThrow("runtime_error")

to_function(v) ==
    CASE v.type = "Function" -> ConvL(v.n)
      [] OTHER               -> ConvThrow("runtime_error")

to_object(v) ==
    CASE v.type = "Object" -> ConvL(v.n)
      [] OTHER             -> ConvThrow("runtime_error")

to_array(v) ==
    CASE v.type = "Array" -> ConvL(v.n)
      [] OTHER            -> ConvThrow("runtime_error")

(***************************************************************************)
(* The comparison operators of Value.  Each switches on the kind of the     *)
(* left operand and coerces the right operand to that kind.                 *)
(***************************************************************************)
\* both coercions, the right one thrown first if it throws
Both(cl, cr, r) ==
    IF cl.exc # "none" THEN ConvThrow(cl.exc)
    ELSE IF cr.exc # "none" THEN ConvThrow(cr.exc)
    ELSE Conv(r)

\* operator== that compares two values of the same kind only
operator_eq_strict(lhs, rhs) ==
    CASE lhs.type \in {"Object", "Array", "Function"} -> ConvThrow("logic_error")
      [] lhs.type # rhs.type   -> ConvThrow("runtime_error")
      [] OTHER                 -> Conv(lhs = rhs)

operator_eq(lhs, rhs) ==
    CASE lhs.type = "Undefined" -> Conv(rhs.type = "Undefined")
      [] lhs.type = "Bool"   -> Both(to_bool(lhs), to_bool(rhs), to_bool(lhs).r = to_bool(rhs).r)
      [] lhs.type = "Long"   -> Both(to_long(lhs), to_long(rhs), to_long(lhs).l = to_long(rhs).l)
      [] lhs.type = "String" -> Both(to_string(lhs), to_string(rhs), to_string(lhs).cs = to_string(rhs).cs)
      [] OTHER               -> ConvThrow("logic_error")

operator_ne(lhs, rhs) ==
    LET e == operator_eq(lhs, rhs)
    IN  IF e.exc # "none" THEN e ELSE Conv(~e.r)

\* false < true
BoolLess(a, b) == (~a) /\ b

operator_le(lhs, rhs) ==
    CASE lhs.type = "Undefined" -> Conv(FALSE)
      [] lhs.type = "Bool"   -> Both(to_bool(lhs), to_bool(rhs), ~BoolLess(to_bool(rhs).r, to_bool(lhs).r))
      [] lhs.type = "Long"   -> Both(to_long(lhs), to_long(rhs), to_long(lhs).l <= to_long(rhs).l)
      [] lhs.type = "String" -> Both(to_string(lhs), to_string(rhs), ~StrLess(to_string(rhs).cs, to_string(lhs).cs))
      [] OTHER               -> ConvThrow("logic_error")

operator_lt(lhs, rhs) ==
    CASE lhs.type = "Undefined" -> Conv(FALSE)
      [] lhs.type = "Bool"   -> Both(to_bool(lhs), to_bool(rhs), BoolLess(to_bool(lhs).r, to_bool(rhs).r))
      [] lhs.type = "Long"   -> Both(to_long(lhs), to_long(rhs), to_long(lhs).l < to_long(rhs).l)
      [] lhs.type = "String" -> Both(to_string(lhs), to_string(rhs), StrLess(to_string(lhs).cs, to_string(rhs).cs))
      [] OTHER               -> ConvThrow("logic_error")

operator_ge(lhs, rhs) ==
    CASE lhs.type = "Undefined" -> Conv(FALSE)
      [] lhs.type = "Bool"   -> Both(to_bool(lhs), to_bool(rhs), ~BoolLess(to_bool(lhs).r, to_bool(rhs).r))
      [] lhs.type = "Long"   -> Both(to_long(lhs), to_long(rhs), to_long(lhs).l >= to_long(rhs).l)
      [] lhs.type = "String" -> Both(to_string(lhs), to_string(rhs), ~StrLess(to_string(lhs).cs, to_string(rhs).cs))
      [] OTHER               -> ConvThrow("logic_error")

operator_gt(lhs, rhs) ==
    CASE lhs.type = "Undefined" -> Conv(FALSE)
      [] lhs.type = "Bool"   -> Both(to_bool(lhs), to_bool(rhs), BoolLess(to_bool(rhs).r, to_bool(lhs).r))
      [] lhs.type = "Long"   -> Both(to_long(lhs), to_long(rhs), to_long(lhs).l > to_long(rhs).l)
      [] lhs.type = "String" -> Both(to_string(lhs), to_string(rhs), StrLess(to_string(rhs).cs, to_string(lhs).cs))
      [] OTHER               -> ConvThrow("logic_error")

(***************************************************************************)
(* Environment.  A frame is [dic, outer]: dic_ maps a name to its Symbol    *)
(* [val, mut], outer is the id of the outer frame or 0 for a null pointer.  *)
(* The operations take the heap of frames and the id of the frame they are  *)
(* called on.                                                               *)
(***************************************************************************)
EmptyMap == [x \in {} |-> UndefinedV]
Symbol(val, mut) == [val |-> val, mut |-> mut]
NewEnvironment == [dic |-> EmptyMap, outer |-> 0]

\* std::map::operator[] assignment: insert or overwrite
MapPut(m, k, v) == (k :> v) @@ m

RECURSIVE append_outer(_, _, _)
append_outer(es, e, outer) ==
    IF es[e].outer # 0
    THEN append_outer(es, es[e].outer, outer)
    ELSE [es EXCEPT ![e].outer = outer]

RECURSIVE has(_, _, _)
has(es, e, s) ==
    IF s \in DOMAIN es[e].dic THEN TRUE
    ELSE es[e].outer # 0 /\ has(es, es[e].outer, s)

\* get that looks in the outer frames first
RECURSIVE get_outermost(_, _, _)
get_outermost(es, e, s) ==
    IF es[e].outer # 0 /\ has(es, es[e].outer, s) THEN get_outermost(es, es[e].outer, s)
    ELSE IF s \in DOMAIN es[e].dic THEN [exc |-> "none", val |-> es[e].dic[s].val]
    ELSE [exc |-> "runtime_error", val |-> UndefinedV]

\* [exc, val]: the value, or the runtime_error "undefined variable"
RECURSIVE get(_, _, _)
get(es, e, s) ==
    IF s \in DOMAIN es[e].dic THEN [exc |-> "none", val |-> es[e].dic[s].val]
    ELSE IF es[e].outer # 0 THEN get(es, es[e].outer, s)
    ELSE [exc |-> "runtime_error", val |-> UndefinedV]

\* assign without the test of sym.mut
RECURSIVE assign_unchecked(_, _, _, _)
assign_unchecked(es, e, s, val) ==
    IF s \in DOMAIN es[e].dic
    THEN [exc |-> "none", es |-> [es EXCEPT ![e].dic[s].val = val]]
    ELSE IF es[e].outer # 0 /\ has(es, es[e].outer, s)
    THEN assign_unchecked(es, es[e].outer, s, val)
    ELSE [exc |-> "logic_error", es |-> es]

\* [exc, es]: the heap after the assignment, or the exception thrown
RECURSIVE assign(_, _, _, _)
assign(es, e, s, val) ==
    IF s \in DOMAIN es[e].dic
    THEN IF ~es[e].dic[s].mut
         THEN [exc |-> "runtime_error", es |-> es]
         ELSE [exc |-> "none", es |-> [es EXCEPT ![e].dic[s].val = val]]
    ELSE IF es[e].outer # 0 /\ has(es, es[e].outer, s)
    THEN assign(es, es[e].outer, s, val)
    ELSE [exc |-> "logic_error", es |-> es]

initialize(es, e, s, val, mut) ==
    [es EXCEPT ![e].dic = MapPut(@, s, Symbol(val, mut))]

(***************************************************************************)
(* The heap-shared payloads.  A Value of kind Object, Array or Function     *)
(* holds shared_ptrs, so a copy of the Value shares the payload: the model  *)
(* keeps the payload in a heap cell and the reference in the Value.         *)
(***************************************************************************)
\* FunctionValue: params and the std::function eval.  kind names the lambda:
\*   "closure"      the lambda of eval_function (body, env captured)
\*   "bound"        the lambda of eval_call, DOT (val = recv, pf captured)
\*   "object_size", "array_size", "array_push", "puts", "assert": built in
Parameter(name, mut) == [name |-> name, mut |-> mut]
Function(kind, params, body, env, recv, pf) ==
    [kind |-> kind, params |-> params, body |-> body, env |-> env,
     recv |-> recv, pf |-> pf]

\* An AST node (peglib::Ast), as far as the evaluator reads it
Ast(tag, original_tag, is_token, token, nodes, line, column) ==
    [tag |-> tag, original_tag |-> original_tag, is_token |-> is_token,
     token |-> token, nodes |-> nodes, line |-> line, column |-> column]
NoAst == Ast("", "", FALSE, "", <<>>, 0, 0)

BuiltIn(kind, params) == Function(kind, params, NoAst, 0, UndefinedV, 0)

\* The static tables of ObjectValue::builtins and ArrayValue::builtins: the
\* heap cells 1..3 of funcs hold them from the start
ObjectSizeRef == 1
ArraySizeRef  == 2
ArrayPushRef  == 3
StaticFunctions ==
    << BuiltIn("object_size", <<>>),
       BuiltIn("array_size", <<>>),
       BuiltIn("array_push", <<Parameter("arg", FALSE)>>) >>

ObjectValue_builtins == ("size" :> FunctionV(ObjectSizeRef))
ArrayValue_builtins  ==
    ("size" :> FunctionV(ArraySizeRef)) @@ ("push" :> FunctionV(ArrayPushRef))

\* virtual builtins(): the table of the dynamic type
builtins(v) ==
    IF v.type = "Array" THEN ArrayValue_builtins ELSE ObjectValue_builtins

\* the properties map of an Object or an Array (an ArrayValue is an
\* ObjectValue; nothing ever inserts into the properties of an array)
properties(st, v) ==
    IF v.type = "Object" THEN st.objects[v.n] ELSE EmptyMap

has_property(st, v, name) ==
    IF name \notin DOMAIN properties(st, v)
    THEN name \in DOMAIN builtins(v)
    ELSE TRUE

\* [exc, val]: Value::get_property, then ObjectValue::get_property
get_property(st, v, name) ==
    IF v.type \notin {"Object", "Array"}
    THEN [exc |-> "runtime_error", val |-> UndefinedV]
    ELSE IF name \notin DOMAIN properties(st, v)
    THEN IF name \in DOMAIN builtins(v)
         THEN [exc |-> "none", val |-> builtins(v)[name]]
         ELSE [exc |-> "logic_error", val |-> UndefinedV]   \* map::at
    ELSE [exc |-> "none", val |-> properties(st, v)[name]]

(***************************************************************************)
(* Value::str.  The recursion of str_object and str_array does not end on   *)
(* a payload that contains itself; depth counts the nesting left before     *)
(* the rendering counts as not returning.                                   *)
(***************************************************************************)
\* the least key of a non-empty set of names, in std::map's order
MinKey(ks) == CHOOSE k \in ks : \A j \in ks : j = k \/ StrLess(Chars(k), Chars(j))

RECURSIVE str(_, _, _)
RECURSIVE str_object(_, _, _, _)
RECURSIVE str_array(_, _, _, _)

\* [ok, cs]
str(v, st, depth) ==
    CASE v.type = "Undefined" -> [ok |-> TRUE, cs |-> Chars("undefined")]
      [] v.type = "Bool"      -> [ok |-> TRUE, cs |-> IF to_bool(v).r THEN Chars("true") ELSE Chars("false")]
      [] v.type = "Long"      -> [ok |-> TRUE, cs |-> std_to_string(to_long(v).l)]
      [] v.type = "String"    -> [ok |-> TRUE, cs |-> to_string(v).cs]
      [] v.type = "Function"  -> [ok |-> TRUE, cs |-> Chars("[function]")]
      [] v.type = "Object"    ->
            IF depth = 0 THEN [ok |-> FALSE, cs |-> <<>>]
            ELSE LET r == str_object(st.objects[v.n], DOMAIN st.objects[v.n], st, depth - 1)
                 IN  [ok |-> r.ok, cs |-> Chars("{") \o r.cs \o Chars("}")]
      [] v.type = "Array"     ->
            IF depth = 0 THEN [ok |-> FALSE, cs |-> <<>>]
            ELSE LET r == str_array(st.arrays[v.n], 1, st, depth - 1)
                 IN  [ok |-> r.ok, cs |-> Chars("[") \o r.cs \o Chars("]")]

\* the properties with a key in ks, in key order
str_object(props, ks, st, depth) ==
    IF ks = {} THEN [ok |-> TRUE, cs |-> <<>>]
    ELSE LET k    == MinKey(ks)
             sep  == IF ks = DOMAIN props THEN <<>> ELSE Chars(", ")
             one  == str(props[k], st, depth)
             rest == str_object(props, ks \ {k}, st, depth)
         IN  [ok |-> one.ok /\ rest.ok,
              cs |-> sep \o Chars("\"") \o Chars(k) \o Chars("\"") \o Chars(": ")
                     \o one.cs \o rest.cs]

\* the elements from index i on (1-based)
str_array(values, i, st, depth) ==
    IF i > Len(values) THEN [ok |-> TRUE, cs |-> <<>>]
    ELSE LET sep  == IF i = 1 THEN <<>> ELSE Chars(", ")
             one  == str(values[i], st, depth)
             rest == str_array(values, i + 1, st, depth)
         IN  [ok |-> one.ok /\ rest.ok, cs |-> sep \o one.cs \o rest.cs]

\* nesting cannot be deeper than the number of payloads unless one contains itself
StrDepth(st) == Len(st.objects) + Len(st.arrays) + 1

(***************************************************************************)
(* The store and the result of an evaluation.                               *)
(*   st.fuel  eval calls left before the run counts as not returning        *)
(*   st.ub    what the build does on an integer division by zero            *)
(*   st.log   the events of the run so far (a record of what the code did,  *)
(*            read by the properties only)                                  *)
(***************************************************************************)
Store(es, as, os, fs, o, lg, fuel, ub) ==
    [envs |-> es, arrays |-> as, objects |-> os, funcs |-> fs, out |-> o,
     log |-> lg, fuel |-> fuel, ub |-> ub]

Ok(v, st)        == [status |-> "ok", val |-> v, msg |-> NoMsg, st |-> st]
Throw(e, m, st)  == [status |-> e, val |-> UndefinedV, msg |-> m, st |-> st]
Diverge(st)      == [status |-> "diverge", val |-> UndefinedV, msg |-> NoMsg, st |-> st]
Signal(st)       == [status |-> "signal", val |-> UndefinedV, msg |-> NoMsg, st |-> st]

\* One event of the log.  pre and post are the heap of frames before and
\* after the step the event records; for the return of a call, pre is the
\* heap when the body starts and post the heap when the call returns.
Event(ev, env, name, target, mut, val, pre, post) ==
    [ev |-> ev, env |-> env, name |-> name, target |-> target, mut |-> mut,
     val |-> val, pre |-> pre, post |-> post]
Logged(st, e) == [st EXCEPT !.log = Append(@, e)]

\* the frame of the chain of e that holds the innermost binding of s, 0 if none
RECURSIVE Definer(_, _, _)
Definer(es, e, s) ==
    IF e = 0 THEN 0
    ELSE IF s \in DOMAIN es[e].dic THEN e
    ELSE Definer(es, es[e].outer, s)

\* the outermost frame of the chain of e
RECURSIVE ChainEnd(_, _)
ChainEnd(es, e) == IF es[e].outer = 0 THEN e ELSE ChainEnd(es, es[e].outer)

\* C++ integer division and remainder: truncation toward zero
Abs(a) == IF a < 0 THEN 0 - a ELSE a
TruncDiv(a, b) ==
    IF (a < 0) = (b < 0) THEN Abs(a) \div Abs(b) ELSE 0 - (Abs(a) \div Abs(b))
TruncMod(a, b) == a - b * TruncDiv(a, b)

(***************************************************************************)
(* Eval                                                                     *)
(***************************************************************************)
RECURSIVE Eval(_, _, _)
RECURSIVE statements_from(_, _, _, _)
RECURSIVE eval_while(_, _, _)
RECURSIVE if_from(_, _, _, _)
RECURSIVE eval_call(_, _, _)
RECURSIVE call_suffixes(_, _, _, _, _)
RECURSIVE call_arguments(_, _, _, _, _)
RECURSIVE bind_parameters(_, _, _, _, _, _)
RECURSIVE call_index(_, _, _, _)
RECURSIVE FunctionValue_eval(_, _, _)
RECURSIVE or_from(_, _, _, _, _)
RECURSIVE and_from(_, _, _, _, _)
RECURSIVE eval_condition(_, _, _)
RECURSIVE eval_unary_plus(_, _, _)
RECURSIVE eval_unary_minus(_, _, _)
RECURSIVE eval_unary_not(_, _, _)
RECURSIVE eval_bin_expression(_, _, _)
RECURSIVE bin_from(_, _, _, _, _)
RECURSIVE eval_assignment(_, _, _)
RECURSIVE eval_object(_, _, _)
RECURSIVE object_from(_, _, _, _, _)
RECURSIVE eval_array(_, _, _)
RECURSIVE array_from(_, _, _, _, _)
RECURSIVE eval_interpolated_string(_, _, _)
RECURSIVE interpolated_from(_, _, _, _, _)

\* statements_from with the frames, arrays and objects put back when a
\* statement fails
statements_from_undone(ast, i, env, st) ==
    LET r    == Eval(ast.nodes[i], env, st)
        rest == statements_from(ast, i + 1, env, r.st)
        undo(x) == [x EXCEPT !.st.envs = st.envs, !.st.arrays = st.arrays,
                             !.st.objects = st.objects]
    IN  IF r.status # "ok" THEN undo(r)
        ELSE IF i = Len(ast.nodes) THEN r
        ELSE IF rest.status # "ok" THEN undo(rest)
        ELSE rest

\* the statements from the i-th on; the value of the last one
statements_from(ast, i, env, st) ==
    LET r == Eval(ast.nodes[i], env, st)
    IN  IF i = Len(ast.nodes) \/ r.status # "ok" THEN r
        ELSE statements_from(ast, i + 1, env, r.st)

eval_statements(ast, env, st) ==
    IF ast.is_token THEN Diverge(st)      \* eval(ast, env) on the same node, for ever
    ELSE IF ast.nodes = <<>> THEN Ok(UndefinedV, st)
    ELSE statements_from(ast, 1, env, st)

\* eval_while with the loop left after one evaluation of the body
eval_while_once(ast, env, st) ==
    LET cond == Eval(ast.nodes[1], env, st)
    IN  IF cond.status # "ok" THEN cond
        ELSE IF to_bool(cond.val).exc # "none"
        THEN Throw(to_bool(cond.val).exc, TypeErrorMsg, cond.st)
        ELSE IF ~to_bool(cond.val).r THEN Ok(UndefinedV, cond.st)
        ELSE LET body == Eval(ast.nodes[2], env, cond.st)
             IN  IF body.status # "ok" THEN body
                 ELSE Ok(UndefinedV, body.st)

eval_while(ast, env, st) ==
    LET cond == Eval(ast.nodes[1], env, st)
    IN  IF cond.status # "ok" THEN cond
        ELSE IF to_bool(cond.val).exc # "none"
        THEN Throw(to_bool(cond.val).exc, TypeErrorMsg, cond.st)
        ELSE IF ~to_bool(cond.val).r THEN Ok(UndefinedV, cond.st)
        ELSE LET body == Eval(ast.nodes[2], env, cond.st)
             IN  IF body.status # "ok" THEN body
                 ELSE eval_while(ast, env, body.st)

\* the loop of eval_if from the node i on (1-based, so i = 1, 3, 5, ...)
if_from(ast, i, env, st) ==
    IF i > Len(ast.nodes) THEN Ok(UndefinedV, st)
    ELSE IF i = Len(ast.nodes) THEN Eval(ast.nodes[i], env, st)
    ELSE LET cond == Eval(ast.nodes[i], env, st)
         IN  IF cond.status # "ok" THEN cond
             ELSE IF to_bool(cond.val).exc # "none"
             THEN Throw(to_bool(cond.val).exc, TypeErrorMsg, cond.st)
             ELSE IF to_bool(cond.val).r THEN Eval(ast.nodes[i + 1], env, cond.st)
             ELSE if_from(ast, i + 2, env, cond.st)

\* eval_if that drops the value of the branch it ran
eval_if_discard(ast, env, st) ==
    LET r == if_from(ast, 1, env, st)
    IN  IF r.status = "ok" THEN Ok(UndefinedV, r.st) ELSE r

eval_if(ast, env, st) == if_from(ast, 1, env, st)

\* the parameters of a FUNCTION node: PARAMETERS is nodes[1], each PARAMETER
\* is (MUTABLE, IDENTIFIER)
function_params(ast) ==
    [i \in 1..Len(ast.nodes[1].nodes) |->
        Parameter(ast.nodes[1].nodes[i].nodes[2].token,
                  ast.nodes[1].nodes[i].nodes[1].token = "mut")]

\* eval_function that captures the root environment, not the defining one
eval_function_global(ast, env, st) ==
    LET f == Function("closure", function_params(ast), ast.nodes[2], 1, UndefinedV, 0)
    IN  Ok(FunctionV(Len(st.funcs) + 1), [st EXCEPT !.funcs = Append(@, f)])

eval_function(ast, env, st) ==
    LET f == Function("closure", function_params(ast), ast.nodes[2], env, UndefinedV, 0)
    IN  Ok(FunctionV(Len(st.funcs) + 1), [st EXCEPT !.funcs = Append(@, f)])

eval_block(ast, env, st) == Ok(UndefinedV, st)

\* the loop over params in eval_call: argument i is evaluated in the caller's
\* env and bound to parameter i in callEnv
bind_parameters(params, args, iprm, env, callEnv, st) ==
    IF iprm > Len(params) THEN Ok(UndefinedV, st)
    ELSE LET val == Eval(args[iprm], env, st)
         IN  IF val.status # "ok" THEN val
             ELSE LET es == initialize(val.st.envs, callEnv,
                                       params[iprm].name, val.val, params[iprm].mut)
                  IN  bind_parameters(params, args, iprm + 1, env, callEnv,
                          Logged([val.st EXCEPT !.envs = es],
                                 Event("bind", callEnv, params[iprm].name, iprm,
                                       params[iprm].mut, val.val, val.st.envs, es)))

\* f.eval(callEnv): the std::function of the FunctionValue in cell fi
FunctionValue_eval(fi, callEnv, st) ==
    LET f    == st.funcs[fi]
        this == get(st.envs, callEnv, "this")
        arg  == get(st.envs, callEnv, "arg")
    IN  CASE f.kind = "closure" ->
               LET es == append_outer(st.envs, callEnv, f.env)
                   s1 == Logged([st EXCEPT !.envs = es],
                                Event("invoke", callEnv, "", f.env, FALSE,
                                      FunctionV(fi), st.envs, es))
               IN  Eval(f.body, callEnv, s1)
          [] f.kind = "bound" ->
               FunctionValue_eval(f.pf, callEnv,
                   [st EXCEPT !.envs = initialize(@, callEnv, "this", f.recv, FALSE)])
          [] f.kind = "object_size" ->
               IF this.exc # "none" THEN Throw(this.exc, UndefinedVarMsg("this"), st)
               ELSE IF to_object(this.val).exc # "none"
               THEN Throw(to_object(this.val).exc, TypeErrorMsg, st)
               ELSE Ok(LongV(Cardinality(DOMAIN st.objects[to_object(this.val).l])), st)
          [] f.kind = "array_size" ->
               IF this.exc # "none" THEN Throw(this.exc, UndefinedVarMsg("this"), st)
               ELSE IF to_array(this.val).exc # "none"
               THEN Throw(to_array(this.val).exc, TypeErrorMsg, st)
               ELSE Ok(LongV(Len(st.arrays[to_array(this.val).l])), st)
          [] f.kind = "array_push" ->
               IF this.exc # "none" THEN Throw(this.exc, UndefinedVarMsg("this"), st)
               ELSE IF arg.exc # "none" THEN Throw(arg.exc, UndefinedVarMsg("arg"), st)
               ELSE IF to_array(this.val).exc # "none"
               THEN Throw(to_array(this.val).exc, TypeErrorMsg, st)
               ELSE Ok(UndefinedV,
                       [st EXCEPT !.arrays[to_array(this.val).l] = Append(@, arg.val)])
          [] f.kind = "puts" ->
               IF arg.exc # "none" THEN Throw(arg.exc, UndefinedVarMsg("arg"), st)
               ELSE LET s == str(arg.val, st, StrDepth(st))
                    IN  IF ~s.ok THEN Diverge(st)
                        ELSE Ok(UndefinedV, [st EXCEPT !.out = Append(@, s.cs)])
          [] f.kind = "assert" ->
               LET line   == get(st.envs, callEnv, "__LINE__")
                   column == get(st.envs, callEnv, "__COLUMN__")
               IN  IF arg.exc # "none" THEN Throw(arg.exc, UndefinedVarMsg("arg"), st)
                   ELSE IF to_bool(arg.val).exc # "none"
                   THEN Throw(to_bool(arg.val).exc, TypeErrorMsg, st)
                   ELSE IF to_bool(arg.val).r THEN Ok(UndefinedV, st)
                   ELSE IF line.exc # "none"
                   THEN Throw(line.exc, UndefinedVarMsg("__LINE__"), st)
                   ELSE IF to_long(line.val).exc # "none"
                   THEN Throw(to_long(line.val).exc, TypeErrorMsg, st)
                   ELSE IF column.exc # "none"
                   THEN Throw(column.exc, UndefinedVarMsg("__COLUMN__"), st)
                   ELSE IF to_long(column.val).exc # "none"
                   THEN Throw(to_long(column.val).exc, TypeErrorMsg, st)
                   ELSE Throw("runtime_error",
                              AssertFailedMsg(to_long(line.val).l, to_long(column.val).l), st)

\* val = f.eval(callEnv): the call has returned ret to eval_call; pre is the
\* heap of frames with which the body started
call_returned(ret, val, env, callEnv, pre) ==
    IF ret.status # "ok" THEN ret
    ELSE Ok(ret.val,
            Logged(ret.st, Event("return", env, "", callEnv, FALSE, val, pre, ret.st.envs)))

\* the branch ARGUMENTS that takes exactly as many arguments as parameters
call_arguments_exact(ast, n, val, env, st) ==
    IF to_function(val).exc # "none"
    THEN Throw(to_function(val).exc, TypeErrorMsg, st)
    ELSE LET fi      == to_function(val).l
             params  == st.funcs[fi].params
             args    == n.nodes
             callEnv == Len(st.envs) + 1
             s1      == [st EXCEPT !.envs =
                            initialize(Append(@, NewEnvironment), callEnv, "self", val, FALSE)]
             bound   == bind_parameters(params, args, 1, env, callEnv, s1)
             s2      == [bound.st EXCEPT !.envs =
                            initialize(
                              initialize(@, callEnv, "__LINE__", LongV(ast.line), FALSE),
                              callEnv, "__COLUMN__", LongV(ast.column), FALSE)]
             s3      == Logged(s2, Event("call", env, "", callEnv, FALSE, val,
                                         st.envs, s2.envs))
         IN  IF Len(params) = Len(args)
             THEN IF bound.status # "ok" THEN bound
                  ELSE call_returned(FunctionValue_eval(fi, callEnv, s3),
                                     val, env, callEnv, s2.envs)
             ELSE Throw("runtime_error", ArgumentsErrorMsg, st)

\* the branch ARGUMENTS of eval_call: n is the ARGUMENTS node, val the callee
call_arguments(ast, n, val, env, st) ==
    IF to_function(val).exc # "none"
    THEN Throw(to_function(val).exc, TypeErrorMsg, st)
    ELSE LET fi      == to_function(val).l
             params  == st.funcs[fi].params
             args    == n.nodes
             callEnv == Len(st.envs) + 1
             s1      == [st EXCEPT !.envs =
                            initialize(Append(@, NewEnvironment), callEnv, "self", val, FALSE)]
             bound   == bind_parameters(params, args, 1, env, callEnv, s1)
             s2      == [bound.st EXCEPT !.envs =
                            initialize(
                              initialize(@, callEnv, "__LINE__", LongV(ast.line), FALSE),
                              callEnv, "__COLUMN__", LongV(ast.column), FALSE)]
             s3      == Logged(s2, Event("call", env, "", callEnv, FALSE, val,
                                         st.envs, s2.envs))
         IN  IF Len(params) <= Len(args)
             THEN IF bound.status # "ok" THEN bound
                  ELSE call_returned(FunctionValue_eval(fi, callEnv, s3),
                                     val, env, callEnv, s2.envs)
             ELSE Throw("runtime_error", ArgumentsErrorMsg, st)

\* call_index with an index out of range yielding Undefined
call_index_undefined(n, val, env, st) ==
    IF to_array(val).exc # "none"
    THEN Throw(to_array(val).exc, TypeErrorMsg, st)
    ELSE LET idx == Eval(n, env, st)
         IN  IF idx.status # "ok" THEN idx
             ELSE IF to_long(idx.val).exc # "none"
             THEN Throw(to_long(idx.val).exc, TypeErrorMsg, idx.st)
             ELSE LET i      == to_long(idx.val).l
                      values == idx.st.arrays[to_array(val).l]
                  IN  IF 0 <= i /\ i < Len(values)
                      THEN Ok(values[i + 1], idx.st)
                      ELSE Ok(UndefinedV, idx.st)

\* the branch INDEX of eval_call: n is the index expression, hoisted
call_index(n, val, env, st) ==
    IF to_array(val).exc # "none"
    THEN Throw(to_array(val).exc, TypeErrorMsg, st)
    ELSE LET idx == Eval(n, env, st)
         IN  IF idx.status # "ok" THEN idx
             ELSE IF to_long(idx.val).exc # "none"
             THEN Throw(to_long(idx.val).exc, TypeErrorMsg, idx.st)
             ELSE LET i      == to_long(idx.val).l
                      values == idx.st.arrays[to_array(val).l]
                  IN  IF 0 <= i /\ i < Len(values)
                      THEN Ok(values[i + 1], idx.st)
                      ELSE Ok(val, idx.st)

\* the branch DOT of eval_call: n is the IDENTIFIER token, hoisted
call_dot(n, val, st) ==
    LET prop == get_property(st, val, n.token)
    IN  IF prop.exc = "runtime_error" THEN Throw(prop.exc, TypeErrorMsg, st)
        ELSE IF prop.exc = "logic_error" THEN Throw(prop.exc, OutOfRangeMsg, st)
        ELSE IF prop.val.type = "Function"
        THEN LET pf == to_function(prop.val).l
                 f  == Function("bound", st.funcs[pf].params, NoAst, 0, val, pf)
             IN  Ok(FunctionV(Len(st.funcs) + 1), [st EXCEPT !.funcs = Append(@, f)])
        ELSE Ok(prop.val, st)

\* the loop of eval_call over the suffixes, from the node i on
call_suffixes(ast, i, val, env, st) ==
    IF i > Len(ast.nodes) THEN Ok(val, st)
    ELSE LET n == ast.nodes[i]
             r == CASE n.original_tag = "ARGUMENTS" -> call_arguments(ast, n, val, env, st)
                    [] n.original_tag = "INDEX"     -> call_index(n, val, env, st)
                    [] n.original_tag = "DOT"       -> call_dot(n, val, st)
                    [] OTHER -> Throw("logic_error", InternalMsg, st)
         IN  IF r.status # "ok" THEN r
             ELSE call_suffixes(ast, i + 1, r.val, env, r.st)

eval_call(ast, env, st) ==
    LET val == Eval(ast.nodes[1], env, st)
    IN  IF val.status # "ok" THEN val
        ELSE call_suffixes(ast, 2, val.val, env, val.st)

\* the loop of eval_logical_or from the node i on; val is the last value
or_from(ast, i, val, env, st) ==
    IF i > Len(ast.nodes) THEN Ok(val, st)
    ELSE LET r == Eval(ast.nodes[i], env, st)
         IN  IF r.status # "ok" THEN r
             ELSE IF to_bool(r.val).exc # "none"
             THEN Throw(to_bool(r.val).exc, TypeErrorMsg, r.st)
             ELSE IF to_bool(r.val).r THEN r
             ELSE or_from(ast, i + 1, r.val, env, r.st)

\* eval_logical_or that evaluates every operand before it picks the result
RECURSIVE or_eager_from(_, _, _, _)
or_eager_from(ast, i, env, st) ==
    LET r    == Eval(ast.nodes[i], env, st)
        rest == or_eager_from(ast, i + 1, env, r.st)
    IN  IF r.status # "ok" THEN r
        ELSE IF to_bool(r.val).exc # "none"
        THEN Throw(to_bool(r.val).exc, TypeErrorMsg, r.st)
        ELSE IF i = Len(ast.nodes) THEN r
        ELSE IF rest.status # "ok" THEN rest
        ELSE IF to_bool(r.val).r THEN Ok(r.val, rest.st)
        ELSE rest

eval_logical_or_eager(ast, env, st) == or_eager_from(ast, 1, env, st)

eval_logical_or(ast, env, st) == or_from(ast, 1, UndefinedV, env, st)

and_from(ast, i, val, env, st) ==
    IF i > Len(ast.nodes) THEN Ok(val, st)
    ELSE LET r == Eval(ast.nodes[i], env, st)
         IN  IF r.status # "ok" THEN r
             ELSE IF to_bool(r.val).exc # "none"
             THEN Throw(to_bool(r.val).exc, TypeErrorMsg, r.st)
             ELSE IF ~to_bool(r.val).r THEN r
             ELSE and_from(ast, i + 1, r.val, env, r.st)

eval_logical_and(ast, env, st) == and_from(ast, 1, UndefinedV, env, st)

\* the comparison an operator token selects
compare(ope, lhs, rhs) ==
    CASE ope = Chars("==") -> operator_eq(lhs, rhs)
      [] ope = Chars("!=") -> operator_ne(lhs, rhs)
      [] ope = Chars("<=") -> operator_le(lhs, rhs)
      [] ope = Chars("<")  -> operator_lt(lhs, rhs)
      [] ope = Chars(">=") -> operator_ge(lhs, rhs)
      [] ope = Chars(">")  -> operator_gt(lhs, rhs)
      [] OTHER             -> ConvThrow("logic_error")

eval_condition(ast, env, st) ==
    LET lhs == Eval(ast.nodes[1], env, st)
        ope == Eval(ast.nodes[2], env, lhs.st)
        rhs == Eval(ast.nodes[3], env, ope.st)
        c   == compare(to_string(ope.val).cs, lhs.val, rhs.val)
    IN  IF lhs.status # "ok" THEN lhs
        ELSE IF ope.status # "ok" THEN ope
        ELSE IF to_string(ope.val).exc # "none"
        THEN Throw(to_string(ope.val).exc, TypeErrorMsg, ope.st)
        ELSE IF rhs.status # "ok" THEN rhs
        ELSE IF c.exc = "runtime_error" THEN Throw(c.exc, TypeErrorMsg, rhs.st)
        ELSE IF c.exc = "logic_error" THEN Throw(c.exc, InternalMsg, rhs.st)
        ELSE Ok(BoolV(c.r), rhs.st)

eval_unary_plus(ast, env, st) == Eval(ast.nodes[2], env, st)

eval_unary_minus(ast, env, st) ==
    LET r == Eval(ast.nodes[2], env, st)
    IN  IF r.status # "ok" THEN r
        ELSE IF to_long(r.val).exc # "none"
        THEN Throw(to_long(r.val).exc, TypeErrorMsg, r.st)
        ELSE Ok(LongV(to_long(r.val).l * (-1)), r.st)

eval_unary_not(ast, env, st) ==
    LET r == Eval(ast.nodes[2], env, st)
    IN  IF r.status # "ok" THEN r
        ELSE IF to_bool(r.val).exc # "none"
        THEN Throw(to_bool(r.val).exc, TypeErrorMsg, r.st)
        ELSE Ok(BoolV(~to_bool(r.val).r), r.st)

\* What a build does on `ret /= 0` and `ret %= 0`, which the language leaves
\* undefined: the process is killed by a signal, or the operation yields a
\* value (here 0, or the dividend unchanged)
UBOutcomes == {"trap", "zero", "dividend"}

\* one step of the switch of eval_bin_expression: [exc, l]
apply_operator(ope, ret, val, ub) ==
    CASE ope = Chars("+")[1] -> ConvL(ret + val)
      [] ope = Chars("-")[1] -> ConvL(ret - val)
      [] ope = Chars("*")[1] -> ConvL(ret * val)
      [] ope \in {Chars("/")[1], Chars("%")[1]} /\ val = 0 ->
            (CASE ub = "trap"     -> ConvThrow("signal")
               [] ub = "zero"     -> ConvL(0)
               [] ub = "dividend" -> ConvL(ret))
      [] ope = Chars("/")[1] -> ConvL(TruncDiv(ret, val))
      [] ope = Chars("%")[1] -> ConvL(TruncMod(ret, val))
      [] OTHER               -> ConvL(ret)

\* the loop of eval_bin_expression from the operator node i on (i = 2, 4, ...)
bin_from(ast, i, ret, env, st) ==
    IF i > Len(ast.nodes) THEN Ok(LongV(ret), st)
    ELSE LET val == Eval(ast.nodes[i + 1], env, st)
             ope == Eval(ast.nodes[i], env, val.st)
             r   == apply_operator(to_string(ope.val).cs[1], ret, to_long(val.val).l, st.ub)
         IN  IF val.status # "ok" THEN val
             ELSE IF to_long(val.val).exc # "none"
             THEN Throw(to_long(val.val).exc, TypeErrorMsg, val.st)
             ELSE IF ope.status # "ok" THEN ope
             ELSE IF to_string(ope.val).exc # "none"
             THEN Throw(to_string(ope.val).exc, TypeErrorMsg, ope.st)
             ELSE IF r.exc = "signal" THEN Signal(ope.st)
             ELSE bin_from(ast, i + 2, r.l, env, ope.st)

eval_bin_expression(ast, env, st) ==
    LET ret == Eval(ast.nodes[1], env, st)
    IN  IF ret.status # "ok" THEN ret
        ELSE IF to_long(ret.val).exc # "none"
        THEN Throw(to_long(ret.val).exc, TypeErrorMsg, ret.st)
        ELSE bin_from(ast, 2, to_long(ret.val).l, env, ret.st)

\* eval_assignment with a new name bound in the outermost frame of the chain
eval_assignment_outermost(ast, env, st) ==
    LET var == ast.nodes[2].token
        val == Eval(ast.nodes[3], env, st)
        es  == val.st.envs
        tgt == Definer(es, env, var)
        a   == assign(es, env, var, val.val)
        mut == ast.nodes[1].token
        top == ChainEnd(es, env)
        ini == initialize(es, top, var, val.val, mut = "mut")
    IN  IF val.status # "ok" THEN val
        ELSE IF has(es, env, var)
        THEN IF a.exc = "runtime_error"
             THEN Throw(a.exc, ImmutableVarMsg(var),
                        Logged(val.st, Event("assign", env, var, tgt, es[tgt].dic[var].mut,
                                             val.val, es, es)))
             ELSE IF a.exc = "logic_error" THEN Throw(a.exc, InternalMsg, val.st)
             ELSE Ok(val.val,
                     Logged([val.st EXCEPT !.envs = a.es],
                            Event("assign", env, var, tgt, es[tgt].dic[var].mut,
                                  val.val, es, a.es)))
        ELSE Ok(val.val,
                Logged([val.st EXCEPT !.envs = ini],
                       Event("initialize", env, var, top, mut = "mut", val.val, es, ini)))

eval_assignment(ast, env, st) ==
    LET var == ast.nodes[2].token
        val == Eval(ast.nodes[3], env, st)
        es  == val.st.envs
        tgt == Definer(es, env, var)
        a   == assign(es, env, var, val.val)
        mut == ast.nodes[1].token
        ini == initialize(es, env, var, val.val, mut = "mut")
    IN  IF val.status # "ok" THEN val
        ELSE IF has(es, env, var)
        THEN IF a.exc = "runtime_error"
             THEN Throw(a.exc, ImmutableVarMsg(var),
                        Logged(val.st, Event("assign", env, var, tgt, es[tgt].dic[var].mut,
                                             val.val, es, es)))
             ELSE IF a.exc = "logic_error" THEN Throw(a.exc, InternalMsg, val.st)
             ELSE Ok(val.val,
                     Logged([val.st EXCEPT !.envs = a.es],
                            Event("assign", env, var, tgt, es[tgt].dic[var].mut,
                                  val.val, es, a.es)))
        ELSE Ok(val.val,
                Logged([val.st EXCEPT !.envs = ini],
                       Event("initialize", env, var, env, mut = "mut", val.val, es, ini)))

eval_identifier(ast, env, st) ==
    LET g == get(st.envs, env, ast.token)
    IN  IF g.exc # "none" THEN Throw(g.exc, UndefinedVarMsg(ast.token), st)
        ELSE Ok(g.val, st)

\* std::map::emplace: inserts only when the key is not in the map yet
MapEmplace(m, k, v) == IF k \in DOMAIN m THEN m ELSE (k :> v) @@ m

\* the loop of eval_object from the property i on; obj is the cell of the object
object_from(ast, i, obj, env, st) ==
    IF i > Len(ast.nodes) THEN Ok(ObjectV(obj), st)
    ELSE LET prop == ast.nodes[i]
             name == prop.nodes[1].token
             val  == Eval(prop.nodes[2], env, st)
         IN  IF val.status # "ok" THEN val
             ELSE object_from(ast, i + 1, obj, env,
                      [val.st EXCEPT !.objects[obj] = MapEmplace(@, name, val.val)])

eval_object(ast, env, st) ==
    object_from(ast, 1, Len(st.objects) + 1, env,
                [st EXCEPT !.objects = Append(@, EmptyMap)])

array_from(ast, i, arr, env, st) ==
    IF i > Len(ast.nodes) THEN Ok(ArrayV(arr), st)
    ELSE LET val == Eval(ast.nodes[i], env, st)
         IN  IF val.status # "ok" THEN val
             ELSE array_from(ast, i + 1, arr, env,
                      [val.st EXCEPT !.arrays[arr] = Append(@, val.val)])

eval_array(ast, env, st) ==
    array_from(ast, 1, Len(st.arrays) + 1, env,
               [st EXCEPT !.arrays = Append(@, <<>>)])

eval_undefined(ast, env, st) == Ok(UndefinedV, st)

eval_bool(ast, env, st) == Ok(BoolV(ast.token = "true"), st)

eval_number(ast, env, st) == Ok(LongV(stol(ast.token)), st)

interpolated_from(ast, i, s, env, st) ==
    IF i > Len(ast.nodes) THEN Ok(StringV(s), st)
    ELSE LET val == Eval(ast.nodes[i], env, st)
             cs  == str(val.val, val.st, StrDepth(val.st))
         IN  IF val.status # "ok" THEN val
             ELSE IF ~cs.ok THEN Diverge(val.st)
             ELSE interpolated_from(ast, i + 1, s \o cs.cs, env, val.st)

eval_interpolated_string(ast, env, st) == interpolated_from(ast, 1, <<>>, env, st)

\* Eval::eval: the switch on ast.tag, then the token leaves.  Every call
\* takes one unit of fuel.
dispatch(ast, env, st) ==
    CASE ast.tag = "STATEMENTS"          -> eval_statements(ast, env, st)
      [] ast.tag = "WHILE"               -> eval_while(ast, env, st)
      [] ast.tag = "IF"                  -> eval_if(ast, env, st)
      [] ast.tag = "FUNCTION"            -> eval_function(ast, env, st)
      [] ast.tag = "CALL"                -> eval_call(ast, env, st)
      [] ast.tag = "BLOCK"               -> eval_block(ast, env, st)
      [] ast.tag = "ASSIGNMENT"          -> eval_assignment(ast, env, st)
      [] ast.tag = "LOGICAL_OR"          -> eval_logical_or(ast, env, st)
      [] ast.tag = "LOGICAL_AND"         -> eval_logical_and(ast, env, st)
      [] ast.tag = "CONDITION"           -> eval_condition(ast, env, st)
      [] ast.tag = "UNARY_PLUS"          -> eval_unary_plus(ast, env, st)
      [] ast.tag = "UNARY_MINUS"         -> eval_unary_minus(ast, env, st)
      [] ast.tag = "UNARY_NOT"           -> eval_unary_not(ast, env, st)
      [] ast.tag = "ADDITIVE"            -> eval_bin_expression(ast, env, st)
      [] ast.tag = "MULTIPLICATIVE"      -> eval_bin_expression(ast, env, st)
      [] ast.tag = "IDENTIFIER"          -> eval_identifier(ast, env, st)
      [] ast.tag = "OBJECT"              -> eval_object(ast, env, st)
      [] ast.tag = "ARRAY"               -> eval_array(ast, env, st)
      [] ast.tag = "UNDEFINED"           -> eval_undefined(ast, env, st)
      [] ast.tag = "BOOLEAN"             -> eval_bool(ast, env, st)
      [] ast.tag = "NUMBER"              -> eval_number(ast, env, st)
      [] ast.tag = "INTERPOLATED_STRING" -> eval_interpolated_string(ast, env, st)
      [] ast.is_token                    -> Ok(StringV(Chars(ast.token)), st)
      [] OTHER                           -> Throw("logic_error", InvalidAstMsg, st)

Eval(ast, env, st) ==
    IF st.fuel = 0 THEN Diverge(st)
    ELSE dispatch(ast, env, [st EXCEPT !.fuel = @ - 1])

(***************************************************************************)
(* The AST the parser hands to the evaluator.  get_parser enables the AST   *)
(* with node optimisation for every rule but PARAMETERS, ARGUMENTS and      *)
(* OBJECT: a rule that matched exactly one child is replaced by that child, *)
(* which keeps its own tag and takes the rule's name as original_tag.  A    *)
(* token rule (one with a < > capture) yields a leaf that holds the text.   *)
(***************************************************************************)
Preserved == {"PARAMETERS", "ARGUMENTS", "OBJECT"}

Token(name, token) == Ast(name, name, TRUE, token, <<>>, 1, 1)
Node(name, nodes)  == Ast(name, name, FALSE, "", nodes, 1, 1)
Hoist(child, name) == [child EXCEPT !.original_tag = name]

\* the AST of a rule without a capture that matched the children `nodes`
Rule(name, nodes) ==
    IF name \notin Preserved /\ Len(nodes) = 1
    THEN Hoist(nodes[1], name)
    ELSE Node(name, nodes)

\* One operator per rule of grammar_: the AST of a match of the rule, from
\* the ASTs of the rules it refers to
pNumber(t)              == Token("NUMBER", t)
pIdentifier(t)          == Token("IDENTIFIER", t)
pString(t)              == Token("STRING", t)
pBoolean(t)             == Token("BOOLEAN", t)
pUndefined              == Token("UNDEFINED", "undefined")
pMutable(t)             == Token("MUTABLE", t)
pPrimary(e)             == Rule("PRIMARY", <<e>>)
pExpression(e)          == Rule("EXPRESSION", <<e>>)
pStatements(es)         == Rule("STATEMENTS", es)
pProgram(es)            == Rule("PROGRAM", <<pStatements(es)>>)
pBlock(es)              == Rule("BLOCK", <<pStatements(es)>>)
pAssignment(m, x, e)    == Rule("ASSIGNMENT", <<pMutable(m), pIdentifier(x), e>>)
pWhile(c, body)         == Rule("WHILE", <<c, pBlock(body)>>)
\* parts: condition, block, condition, block, ..., and an else block or not
pIf(parts)              == Rule("IF", parts)
pParameter(m, x)        == Rule("PARAMETER", <<pMutable(m), pIdentifier(x)>>)
pParameters(ps)         == Rule("PARAMETERS", ps)
pFunction(ps, body)     == Rule("FUNCTION", <<pParameters(ps), pBlock(body)>>)
pArguments(es)          == Rule("ARGUMENTS", es)
pIndex(e)               == Rule("INDEX", <<e>>)
pDot(x)                 == Rule("DOT", <<pIdentifier(x)>>)
pCall(primary, suffixes) == Rule("CALL", <<primary>> \o suffixes)
pLogicalOr(es)          == Rule("LOGICAL_OR", es)
pLogicalAnd(es)         == Rule("LOGICAL_AND", es)
pCondition(l, op, r)    == Rule("CONDITION", <<l, Token("CONDITION_OPERATOR", op), r>>)
pAdditive(l, op, r)     == Rule("ADDITIVE", <<l, Token("ADDITIVE_OPERATOR", op), r>>)
pMultiplicative(l, op, r) == Rule("MULTIPLICATIVE", <<l, Token("MULTIPLICATIVE_OPERATOR", op), r>>)
pUnaryPlus(e)           == Rule("UNARY_PLUS", <<Token("UNARY_PLUS_OPERATOR", "+"), e>>)
pUnaryMinus(e)          == Rule("UNARY_MINUS", <<Token("UNARY_MINUS_OPERATOR", "-"), e>>)
pUnaryNot(e)            == Rule("UNARY_NOT", <<Token("UNARY_NOT_OPERATOR", "!"), e>>)
pObjectProperty(x, e)   == Rule("OBJECT_PROPERTY", <<pIdentifier(x), e>>)
pObject(props)          == Rule("OBJECT", props)
pArray(es)              == Rule("ARRAY", es)

(***************************************************************************)
(* The programs given to run.  A program is named <<family, i, j, k>>;      *)
(* Source gives its AST.  Each family is written out in the comments in     *)
(* the language itself.                                                     *)
(***************************************************************************)
NoProgram == <<"none", 0, 0, 0>>

\* shorthands
num(t) == pNumber(t)
var(x) == pIdentifier(x)
let(x, e) == pAssignment("", x, e)
letmut(x, e) == pAssignment("mut", x, e)
call0(f) == pCall(f, <<pArguments(<<>>)>>)
call1(f, a) == pCall(f, <<pArguments(<<a>>)>>)

\* family "bind": bindings, frames and closures
BindSource(i) ==
    CASE i = 1 ->   \* mut x = 1; x = 2; x
            pProgram(<<letmut("x", num("1")), let("x", num("2")), var("x")>>)
      [] i = 2 ->   \* x = 1; x = 2; x
            pProgram(<<let("x", num("1")), let("x", num("2")), var("x")>>)
      [] i = 3 ->   \* f = fn(p) { p = 2 }; f(1)
            pProgram(<<let("f", pFunction(<<pParameter("", "p")>>, <<let("p", num("2"))>>)),
                       call1(var("f"), num("1"))>>)
      [] i = 4 ->   \* g = fn(mut p) { p = 2; p }; g(1)
            pProgram(<<let("g", pFunction(<<pParameter("mut", "p")>>,
                                          <<let("p", num("2")), var("p")>>)),
                       call1(var("g"), num("1"))>>)
      [] i = 5 ->   \* y = 1; h = fn() { y = 2 }; h()
            pProgram(<<let("y", num("1")),
                       let("h", pFunction(<<>>, <<let("y", num("2"))>>)),
                       call0(var("h"))>>)
      [] i = 6 ->   \* mut z = 1; k = fn() { z = 2 }; k(); z
            pProgram(<<letmut("z", num("1")),
                       let("k", pFunction(<<>>, <<let("z", num("2"))>>)),
                       call0(var("k")), var("z")>>)
      [] i = 7 ->   \* mut s = 1; sh = fn(mut s) { s = 5; s }; sh(3) * 10 + s
            pProgram(<<letmut("s", num("1")),
                       let("sh", pFunction(<<pParameter("mut", "s")>>,
                                           <<let("s", num("5")), var("s")>>)),
                       pAdditive(pMultiplicative(call1(var("sh"), num("3")), "*", num("10")),
                                 "+", var("s"))>>)
      [] i = 8 ->   \* mut w = 1; o = fn() { i = fn() { w = 3 }; i() }; o(); w
            pProgram(<<letmut("w", num("1")),
                       let("o", pFunction(<<>>,
                              <<let("i", pFunction(<<>>, <<let("w", num("3"))>>)),
                                call0(var("i"))>>)),
                       call0(var("o")), var("w")>>)
      [] i = 9 ->   \* mk = fn(n) { fn() { n } }; f7 = mk(7); f7()
            pProgram(<<let("mk", pFunction(<<pParameter("", "n")>>,
                                           <<pFunction(<<>>, <<var("n")>>)>>)),
                       let("f7", call1(var("mk"), num("7"))),
                       call0(var("f7"))>>)
      [] i = 10 ->  \* mut mk = fn(n) { fn() { n } }; mut f7 = mk(7); mut f8 = mk(8);
                    \* f7() * 10 + f8()
            pProgram(<<letmut("mk", pFunction(<<pParameter("", "n")>>,
                                              <<pFunction(<<>>, <<var("n")>>)>>)),
                       letmut("f7", call1(var("mk"), num("7"))),
                       letmut("f8", call1(var("mk"), num("8"))),
                       pAdditive(pMultiplicative(call0(var("f7")), "*", num("10")),
                                 "+", call0(var("f8")))>>)
      [] i = 11 ->  \* mut mk = fn(n) { fn() { n } }; mut f7 = mk(7);
                    \* c = fn(n) { f7() }; c(9)
            pProgram(<<letmut("mk", pFunction(<<pParameter("", "n")>>,
                                              <<pFunction(<<>>, <<var("n")>>)>>)),
                       letmut("f7", call1(var("mk"), num("7"))),
                       let("c", pFunction(<<pParameter("", "n")>>, <<call0(var("f7"))>>)),
                       call1(var("c"), num("9"))>>)
      [] i = 12 ->  \* q = 1; gq = fn() { q }; hq = fn(q) { gq() }; hq(5)
            pProgram(<<let("q", num("1")),
                       let("gq", pFunction(<<>>, <<var("q")>>)),
                       let("hq", pFunction(<<pParameter("", "q")>>, <<call0(var("gq"))>>)),
                       call1(var("hq"), num("5"))>>)
      [] i = 13 ->  \* x
            pProgram(<<var("x")>>)
      [] i = 14 ->  \* x = 9
            pProgram(<<let("x", num("9"))>>)
      [] i = 15 ->  \* mut t = 1; ot = fn(mut t) { it = fn() { t = 9 }; it(); t };
                    \* ot(2) * 10 + t
            pProgram(<<letmut("t", num("1")),
                       let("ot", pFunction(<<pParameter("mut", "t")>>,
                              <<let("it", pFunction(<<>>, <<let("t", num("9"))>>)),
                                call0(var("it")), var("t")>>)),
                       pAdditive(pMultiplicative(call1(var("ot"), num("2")), "*", num("10")),
                                 "+", var("t"))>>)

BindPrograms == {<<"bind", i, 0, 0>> : i \in 1..15}

\* Blocks.  A block body is the statements j and k, each absent (0) or one
\* of: 1, 'a', mut w = 5
BlkAtoms == 0..3

BlkAtom(j) ==
    CASE j = 1 -> num("1")
      [] j = 2 -> pString("a")
      [] j = 3 -> letmut("w", num("5"))

BlkBody(j, k) ==
    (IF j = 0 THEN <<>> ELSE <<BlkAtom(j)>>) \o (IF k = 0 THEN <<>> ELSE <<BlkAtom(k)>>)

BlkSource(form, j, k) ==
    CASE form = 1 ->  \* if true { j; k }
            pProgram(<<pIf(<<pBoolean("true"), pBlock(BlkBody(j, k))>>)>>)
      [] form = 2 ->  \* if false { 9 } else { j; k }
            pProgram(<<pIf(<<pBoolean("false"), pBlock(<<num("9")>>),
                             pBlock(BlkBody(j, k))>>)>>)
      [] form = 3 ->  \* fn() { j; k }()
            pProgram(<<call0(pFunction(<<>>, BlkBody(j, k)))>>)
      [] form = 4 ->  \* if 0 { 9 } else if 1 { j; k } else { 8 }
            pProgram(<<pIf(<<num("0"), pBlock(<<num("9")>>),
                             num("1"), pBlock(BlkBody(j, k)),
                             pBlock(<<num("8")>>)>>)>>)
      [] form = 5 ->  \* mut i = 0; while i < 2 { i = i + 1 }; i
            pProgram(<<letmut("i", num("0")),
                       pWhile(pCondition(var("i"), "<", num("2")),
                              <<let("i", pAdditive(var("i"), "+", num("1")))>>),
                       var("i")>>)
      [] form = 6 ->  \* mut x = 1; if true { x = 2; mut y = 3 }; x + y
            pProgram(<<letmut("x", num("1")),
                       pIf(<<pBoolean("true"),
                             pBlock(<<let("x", num("2")), letmut("y", num("3"))>>)>>),
                       pAdditive(var("x"), "+", var("y"))>>)
      [] form = 7 ->  \* f = fn(n) { if n < 2 { n } else { f(n - 1) + f(n - 2) } }; f(2)
            pProgram(<<letmut("f", pFunction(<<pParameter("", "n")>>,
                          <<pIf(<<pCondition(var("n"), "<", num("2")),
                                  pBlock(<<var("n")>>),
                                  pBlock(<<pAdditive(
                                      call1(var("f"), pAdditive(var("n"), "-", num("1"))),
                                      "+",
                                      call1(var("f"), pAdditive(var("n"), "-", num("2"))))>>)
                                >>)>>)),
                       call1(var("f"), num("2"))>>)

BlkPrograms ==
    {<<"blk", form, j, k>> : form \in 1..4, j \in BlkAtoms, k \in BlkAtoms}
        \cup {<<"blk", form, 0, 0>> : form \in 5..7}

\* LOGICAL_OR and LOGICAL_AND.  The operands: true, false, 5, 'a', nope (a
\* name that is not bound), (mut w = 0), (mut w = 7), 1 / 0
LogicOperands == 1..8
LogicThird    == {0, 7}

LogicOperand(i) ==
    CASE i = 1 -> pBoolean("true")
      [] i = 2 -> pBoolean("false")
      [] i = 3 -> num("5")
      [] i = 4 -> pString("a")
      [] i = 5 -> var("nope")
      [] i = 6 -> pPrimary(pExpression(letmut("w", num("0"))))
      [] i = 7 -> pPrimary(pExpression(letmut("w", num("7"))))
      [] i = 8 -> pMultiplicative(num("1"), "/", num("0"))

\* the operands of the program p, in order
LogicOps(p) == <<p[2], p[3]>> \o (IF p[4] = 0 THEN <<>> ELSE <<p[4]>>)

LogicSource(p) ==
    LET es == [i \in 1..Len(LogicOps(p)) |-> LogicOperand(LogicOps(p)[i])]
    IN  pProgram(<<IF p[1] = "or" THEN pLogicalOr(es) ELSE pLogicalAnd(es)>>)

LogicPrograms ==
    {<<op, l, r, t>> : op \in {"or", "and"}, l \in LogicOperands,
                       r \in LogicOperands, t \in LogicThird}

\* Errors: one program for each way an evaluation can fail, and two that
\* do not fail
ErrSource(i) ==
    CASE i = 1 ->   \* 1 + 'a'
            pProgram(<<pAdditive(num("1"), "+", pString("a"))>>)
      [] i = 2 ->   \* nope
            pProgram(<<var("nope")>>)
      [] i = 3 ->   \* x = 1; x = 2
            pProgram(<<let("x", num("1")), let("x", num("2"))>>)
      [] i = 4 ->   \* fn(a) { a }()
            pProgram(<<call0(pFunction(<<pParameter("", "a")>>, <<var("a")>>))>>)
      [] i = 5 ->   \* assert(false)
            pProgram(<<call1(var("assert"), pBoolean("false"))>>)
      [] i = 6 ->   \* {} == 1
            pProgram(<<pCondition(pObject(<<>>), "==", num("1"))>>)
      [] i = 7 ->   \* [1, 2] < 1
            pProgram(<<pCondition(pArray(<<num("1"), num("2")>>), "<", num("1"))>>)
      [] i = 8 ->   \* fn() { } != 1
            pProgram(<<pCondition(pFunction(<<>>, <<>>), "!=", num("1"))>>)
      [] i = 9 ->   \* 1 == {}
            pProgram(<<pCondition(num("1"), "==", pObject(<<>>))>>)
      [] i = 10 ->  \* {}.nope
            pProgram(<<pCall(pObject(<<>>), <<pDot("nope")>>)>>)
      [] i = 11 ->  \* [1, 2].nope
            pProgram(<<pCall(pArray(<<num("1"), num("2")>>), <<pDot("nope")>>)>>)
      [] i = 12 ->  \* 1.nope
            pProgram(<<pCall(num("1"), <<pDot("nope")>>)>>)
      [] i = 13 ->  \* {x: 1}.x
            pProgram(<<pCall(pObject(<<pObjectProperty("x", num("1"))>>), <<pDot("x")>>)>>)
      [] i = 14 ->  \* 1 + 2
            pProgram(<<pAdditive(num("1"), "+", num("2"))>>)
      [] i = 15 ->  \* !'a'
            pProgram(<<pUnaryNot(pString("a"))>>)
      [] i = 16 ->  \* 1()
            pProgram(<<call0(num("1"))>>)
      [] i = 17 ->  \* assert(1 == 1)
            pProgram(<<call1(var("assert"), pCondition(num("1"), "==", num("1")))>>)

ErrPrograms == {<<"err", i, 0, 0>> : i \in 1..17}

\* Arrays.  a = [n elements]; b = a; f = fn(v) { v.push(9) }; h1; h2;
\* a.size() * 10 + b.size(), where a step h is nothing (0), a.push(2) (1),
\* b.push(3) (2) or f(a) (3)
ArrLengths == 0..3
ArrSteps   == 0..3

ArrElements(n) == SubSeq(<<num("1"), num("5"), num("7")>>, 1, n)

ArrStep(h) ==
    CASE h = 1 -> pCall(var("a"), <<pDot("push"), pArguments(<<num("2")>>)>>)
      [] h = 2 -> pCall(var("b"), <<pDot("push"), pArguments(<<num("3")>>)>>)
      [] h = 3 -> call1(var("f"), var("a"))

ArrSize(x) == pCall(var(x), <<pDot("size"), pArguments(<<>>)>>)

ArrSource(n, h1, h2) ==
    IF n = 9      \* a = [1]; a.push(2); a.size()
    THEN pProgram(<<let("a", pArray(<<num("1")>>)), ArrStep(1), ArrSize("a")>>)
    ELSE pProgram(
           <<let("a", pArray(ArrElements(n))),
             let("b", var("a")),
             let("f", pFunction(<<pParameter("", "v")>>,
                        <<pCall(var("v"), <<pDot("push"), pArguments(<<num("9")>>)>>)>>))>>
           \o (IF h1 = 0 THEN <<>> ELSE <<ArrStep(h1)>>)
           \o (IF h2 = 0 THEN <<>> ELSE <<ArrStep(h2)>>)
           \o <<pAdditive(pMultiplicative(ArrSize("a"), "*", num("10")), "+", ArrSize("b"))>>)

ArrPrograms ==
    {<<"arr", n, h1, h2>> : n \in ArrLengths, h1 \in ArrSteps, h2 \in ArrSteps}
        \cup {<<"arr", 9, 0, 0>>}

\* Objects.  {x: Vi, x: Vj}.x (q = 0), {x: Vi, x: Vj}.size() (q = 1) and
\* {x: Vi, y: 3, x: Vj}.x (q = 2), with the values 1, 2, 'a', true
ObjValues  == 1..4
ObjQueries == 0..2

ObjValue(i) ==
    CASE i = 1 -> num("1")
      [] i = 2 -> num("2")
      [] i = 3 -> pString("a")
      [] i = 4 -> pBoolean("true")

ObjSource(i, j, q) ==
    LET xi == pObjectProperty("x", ObjValue(i))
        xj == pObjectProperty("x", ObjValue(j))
        y  == pObjectProperty("y", num("3"))
    IN  CASE q = 0 -> pProgram(<<pCall(pObject(<<xi, xj>>), <<pDot("x")>>)>>)
          [] q = 1 -> pProgram(<<pCall(pObject(<<xi, xj>>),
                                       <<pDot("size"), pArguments(<<>>)>>)>>)
          [] q = 2 -> pProgram(<<pCall(pObject(<<xi, y, xj>>), <<pDot("x")>>)>>)

ObjPrograms == {<<"obj", i, j, q>> : i \in ObjValues, j \in ObjValues, q \in ObjQueries}

\* Comparisons.  l op r over the operands undefined, false, true, 0, 1, 2,
\* 'a', 'b', {}, [], fn() { }
CondOperands  == 1..11
CondOperators == <<"==", "!=", "<=", "<", ">=", ">">>

CondOperand(i) ==
    CASE i = 1  -> pUndefined
      [] i = 2  -> pBoolean("false")
      [] i = 3  -> pBoolean("true")
      [] i = 4  -> num("0")
      [] i = 5  -> num("1")
      [] i = 6  -> num("2")
      [] i = 7  -> pString("a")
      [] i = 8  -> pString("b")
      [] i = 9  -> pObject(<<>>)
      [] i = 10 -> pArray(<<>>)
      [] i = 11 -> pFunction(<<>>, <<>>)

CondSource(l, op, r) ==
    pProgram(<<pCondition(CondOperand(l), CondOperators[op], CondOperand(r))>>)

CondPrograms ==
    {<<"cond", l, op, r>> : l \in CondOperands, op \in 1..Len(CondOperators),
                            r \in CondOperands}

\* Calls.  fn(p1, .., pk) { body }(a1, .., am) with the arguments 10,
\* (mut e = 20), nope; c = 3 * flags + body, where bit i of flags is the mut
\* of the parameter i and the body is: 0 the parameters read, 1 p1 = 5; p1,
\* 2 p2 = 5; p2
CallParams == 0..2
CallArgs   == 0..3

CallFlags(c) == c \div 3
CallBody(c)  == c % 3
CallMut(c, i) == (CallFlags(c) \div (IF i = 1 THEN 1 ELSE 2)) % 2 = 1

CallParameter(c, i) ==
    pParameter(IF CallMut(c, i) THEN "mut" ELSE "", IF i = 1 THEN "p1" ELSE "p2")

CallArgument(i) ==
    CASE i = 1 -> num("10")
      [] i = 2 -> pPrimary(pExpression(letmut("e", num("20"))))
      [] i = 3 -> var("nope")

CallStatements(k, c) ==
    CASE CallBody(c) = 1 -> <<let("p1", num("5")), var("p1")>>
      [] CallBody(c) = 2 -> <<let("p2", num("5")), var("p2")>>
      [] k = 0 -> <<num("7")>>
      [] k = 1 -> <<var("p1")>>
      [] OTHER -> <<pAdditive(pMultiplicative(var("p1"), "*", num("10")), "+", var("p2"))>>

CallSource(k, m, c) ==
    pProgram(<<pCall(pFunction([i \in 1..k |-> CallParameter(c, i)], CallStatements(k, c)),
                     <<pArguments([i \in 1..m |-> CallArgument(i)])>>)>>)

CallPrograms ==
    {p \in {<<"call", k, m, c>> : k \in CallParams, m \in CallArgs, c \in 0..11} :
        CallBody(p[4]) <= p[2] /\ CallFlags(p[4]) < 2 ^ p[2]}

\* Loops.  n is the bound of the loop; the forms:
\*   0  mut i = 0; while i < n { i = i + 1 }; i
\*   1  mut i = 0; while i < n { i = i + 1 }
\*   2  mut i = n; while 0 < i { i = i - 1 }; i
\*   3  mut i = 0; while i < n { i }; i          (the body leaves i alone)
LoopBounds == 0..3
LoopForms  == 0..3

LoopNumber(n) ==
    CASE n = 0 -> num("0") [] n = 1 -> num("1") [] n = 2 -> num("2") [] n = 3 -> num("3")

LoopSource(n, form) ==
    LET up   == pWhile(pCondition(var("i"), "<", LoopNumber(n)),
                       <<let("i", pAdditive(var("i"), "+", num("1")))>>)
        down == pWhile(pCondition(num("0"), "<", var("i")),
                       <<let("i", pAdditive(var("i"), "-", num("1")))>>)
        idle == pWhile(pCondition(var("i"), "<", LoopNumber(n)), <<var("i")>>)
    IN  CASE form = 0 -> pProgram(<<letmut("i", num("0")), up, var("i")>>)
          [] form = 1 -> pProgram(<<letmut("i", num("0")), up>>)
          [] form = 2 -> pProgram(<<letmut("i", LoopNumber(n)), down, var("i")>>)
          [] form = 3 -> pProgram(<<letmut("i", num("0")), idle, var("i")>>)

LoopPrograms == {<<"loop", n, form, 0>> : n \in LoopBounds, form \in LoopForms}

\* Indexing.  a is an array of n elements (5, 7, 8), built by a literal
\* (f even) or by pushes on an empty array (f odd); k is the index.
\*   f < 2   mut a = ...; a[k]
\*   f >= 2  mut a = ...; mut b = a[k]; b.push(9); a.size()
IdxLengths == 0..3
IdxIndices == {-2, -1, 0, 1, 2, 3, 5}
IdxForms   == 0..3

IdxElements == <<num("5"), num("7"), num("8")>>

IdxIndex(k) ==
    CASE k = -2 -> pUnaryMinus(num("2"))
      [] k = -1 -> pUnaryMinus(num("1"))
      [] k = 0  -> num("0")
      [] k = 1  -> num("1")
      [] k = 2  -> num("2")
      [] k = 3  -> num("3")
      [] k = 5  -> num("5")

IdxBuild(n, f) ==
    IF f % 2 = 0
    THEN <<letmut("a", pArray(SubSeq(IdxElements, 1, n)))>>
    ELSE <<letmut("a", pArray(<<>>))>>
         \o [i \in 1..n |-> pCall(var("a"), <<pDot("push"), pArguments(<<IdxElements[i]>>)>>)]

IdxSource(n, k, f) ==
    LET ak == pCall(var("a"), <<pIndex(IdxIndex(k))>>)
    IN  IF f < 2
        THEN pProgram(IdxBuild(n, f) \o <<ak>>)
        ELSE pProgram(IdxBuild(n, f)
                      \o <<letmut("b", ak),
                           pCall(var("b"), <<pDot("push"), pArguments(<<num("9")>>)>>),
                           pCall(var("a"), <<pDot("size"), pArguments(<<>>)>>)>>)

IdxPrograms == {<<"idx", n, k, f>> : n \in IdxLengths, k \in IdxIndices, f \in IdxForms}

\* Arithmetic.  l and r are operands out of undefined, false, true, 0, 1, 2,
\* (0 - 5), 'a', {}, [], fn() { }; the forms:
\*   1  l + r     2  l - r     3  l * r     4  l / r     5  l % r
\*   6  l - r - 2     7  2 + l * r     8  l / r * 'a'
AriOperands == 1..11
AriForms    == 1..8

AriOperand(i) ==
    CASE i = 1  -> pUndefined
      [] i = 2  -> pBoolean("false")
      [] i = 3  -> pBoolean("true")
      [] i = 4  -> num("0")
      [] i = 5  -> num("1")
      [] i = 6  -> num("2")
      [] i = 7  -> pPrimary(pExpression(pAdditive(num("0"), "-", num("5"))))
      [] i = 8  -> pString("a")
      [] i = 9  -> pObject(<<>>)
      [] i = 10 -> pArray(<<>>)
      [] i = 11 -> pFunction(<<>>, <<>>)

AriSource(l, r, form) ==
    LET a == AriOperand(l)
        b == AriOperand(r)
        add(t) == Token("ADDITIVE_OPERATOR", t)
        mul(t) == Token("MULTIPLICATIVE_OPERATOR", t)
    IN  CASE form = 1 -> pProgram(<<pAdditive(a, "+", b)>>)
          [] form = 2 -> pProgram(<<pAdditive(a, "-", b)>>)
          [] form = 3 -> pProgram(<<pMultiplicative(a, "*", b)>>)
          [] form = 4 -> pProgram(<<pMultiplicative(a, "/", b)>>)
          [] form = 5 -> pProgram(<<pMultiplicative(a, "%", b)>>)
          [] form = 6 -> pProgram(<<Rule("ADDITIVE", <<a, add("-"), b, add("-"), num("2")>>)>>)
          [] form = 7 -> pProgram(<<pAdditive(num("2"), "+", pMultiplicative(a, "*", b))>>)
          [] form = 8 -> pProgram(<<Rule("MULTIPLICATIVE",
                                         <<a, mul("/"), b, mul("*"), pString("a")>>)>>)

AriPrograms == {<<"ari", l, r, form>> : l \in AriOperands, r \in AriOperands, form \in AriForms}

\* Failing runs.  A program is the statements of a prefix e and then a
\* statement f that fails (none when f = 0); two more programs read what
\* the earlier runs have left.
\*   prefixes   0  (none)                   1  mut x = 1
\*              2  mut x = 1; x = 2         3  mut a = [5, 7]; a.push(8)
\*              4  mut x = 3; mut a = [5, 7]; a.push(8); a.push(9)
\*   failing    1  nope        2  1 + 'a'        3  assert(false)
\*   reading    <<"txn", 0, 4, 0>>  x        <<"txn", 0, 5, 0>>  a.size()
TxnPrefixes == 0..4
TxnFailing  == 1..3

TxnPush(t) == pCall(var("a"), <<pDot("push"), pArguments(<<num(t)>>)>>)

TxnPrefix(e) ==
    CASE e = 0 -> <<>>
      [] e = 1 -> <<letmut("x", num("1"))>>
      [] e = 2 -> <<letmut("x", num("1")), let("x", num("2"))>>
      [] e = 3 -> <<letmut("a", pArray(<<num("5"), num("7")>>)), TxnPush("8")>>
      [] e = 4 -> <<letmut("x", num("3")), letmut("a", pArray(<<num("5"), num("7")>>)),
                    TxnPush("8"), TxnPush("9")>>

TxnStatement(f) ==
    CASE f = 1 -> var("nope")
      [] f = 2 -> pAdditive(num("1"), "+", pString("a"))
      [] f = 3 -> call1(var("assert"), pBoolean("false"))
      [] f = 4 -> var("x")
      [] f = 5 -> pCall(var("a"), <<pDot("size"), pArguments(<<>>)>>)

TxnSource(e, f) ==
    pProgram(TxnPrefix(e) \o (IF f = 0 THEN <<>> ELSE <<TxnStatement(f)>>))

TxnPrograms ==
    {<<"txn", e, f, 0>> : e \in TxnPrefixes, f \in TxnFailing}
        \cup {<<"txn", e, 0, 0>> : e \in TxnPrefixes \ {0}}
        \cup {<<"txn", 0, 4, 0>>, <<"txn", 0, 5, 0>>}

\* Call frames: the programs, by number
FrameSource(i) ==
    CASE i = 1 ->   \* mut f = fn() { t = 1; t }; f()
            pProgram(<<letmut("f", pFunction(<<>>, <<let("t", num("1")), var("t")>>)),
                       call0(var("f"))>>)
      [] i = 2 ->   \* mut g = 1; mut f = fn() { g = 2; u = 3; g + u }; f() * 10 + g
            pProgram(<<letmut("g", num("1")),
                       letmut("f", pFunction(<<>>,
                           <<let("g", num("2")), let("u", num("3")),
                             pAdditive(var("g"), "+", var("u"))>>)),
                       pAdditive(pMultiplicative(call0(var("f")), "*", num("10")),
                                 "+", var("g"))>>)
      [] i = 3 ->   \* mut f = fn(mut p, q) { p = 5; r = p; r }; f(1, 2)
            pProgram(<<letmut("f", pFunction(<<pParameter("mut", "p"), pParameter("", "q")>>,
                           <<let("p", num("5")), let("r", var("p")), var("r")>>)),
                       pCall(var("f"), <<pArguments(<<num("1"), num("2")>>)>>)>>)
      [] i = 4 ->   \* mut f = fn(c) { c() };
                    \* mut h = fn() { mut m = 1; k = fn() { m = 2 }; f(k); m }; h()
            pProgram(<<letmut("f", pFunction(<<pParameter("", "c")>>, <<call0(var("c"))>>)),
                       letmut("h", pFunction(<<>>,
                           <<letmut("m", num("1")),
                             let("k", pFunction(<<>>, <<let("m", num("2"))>>)),
                             call1(var("f"), var("k")),
                             var("m")>>)),
                       call0(var("h"))>>)
      [] i = 5 ->   \* mut w = 1;
                    \* mut o = fn() { mut v = 1; i = fn() { w = 3; v = 5; n = 7 }; i(); v };
                    \* o() * 10 + w
            pProgram(<<letmut("w", num("1")),
                       letmut("o", pFunction(<<>>,
                           <<letmut("v", num("1")),
                             let("i", pFunction(<<>>,
                                 <<let("w", num("3")), let("v", num("5")),
                                   let("n", num("7"))>>)),
                             call0(var("i")),
                             var("v")>>)),
                       pAdditive(pMultiplicative(call0(var("o")), "*", num("10")),
                                 "+", var("w"))>>)
      [] i = 6 ->   \* c = 1; mut f = fn() { c = 2 }; f()
            pProgram(<<let("c", num("1")),
                       letmut("f", pFunction(<<>>, <<let("c", num("2"))>>)),
                       call0(var("f"))>>)
      [] i = 7 ->   \* mut f = fn(n) { mut i = 0; while i < n { i = i + 1; mut d = i }; d };
                    \* f(2)
            pProgram(<<letmut("f", pFunction(<<pParameter("", "n")>>,
                           <<letmut("i", num("0")),
                             pWhile(pCondition(var("i"), "<", var("n")),
                                    <<let("i", pAdditive(var("i"), "+", num("1"))),
                                      letmut("d", var("i"))>>),
                             var("d")>>)),
                       call1(var("f"), num("2"))>>)
      [] i = 8 ->   \* mut f = fn(n) { if n < 1 { z = 0 } else { y = f(n - 1); y + 1 } };
                    \* f(2)
            pProgram(<<letmut("f", pFunction(<<pParameter("", "n")>>,
                           <<pIf(<<pCondition(var("n"), "<", num("1")),
                                   pBlock(<<let("z", num("0"))>>),
                                   pBlock(<<let("y", call1(var("f"),
                                                pAdditive(var("n"), "-", num("1")))),
                                            pAdditive(var("y"), "+", num("1"))>>)>>)>>)),
                       call1(var("f"), num("2"))>>)
      [] i = 9 ->   \* mut a = [5, 7]; mut f = fn(v) { v.push(8); s = v.size(); s }; f(a)
            pProgram(<<letmut("a", pArray(<<num("5"), num("7")>>)),
                       letmut("f", pFunction(<<pParameter("", "v")>>,
                           <<pCall(var("v"), <<pDot("push"), pArguments(<<num("8")>>)>>),
                             let("s", pCall(var("v"), <<pDot("size"), pArguments(<<>>)>>)),
                             var("s")>>)),
                       call1(var("f"), var("a"))>>)
      [] i = 10 ->  \* mut s = 1; mut f = fn(mut s) { s = 5; s }; f(3) * 10 + s
            pProgram(<<letmut("s", num("1")),
                       letmut("f", pFunction(<<pParameter("mut", "s")>>,
                           <<let("s", num("5")), var("s")>>)),
                       pAdditive(pMultiplicative(call1(var("f"), num("3")), "*", num("10")),
                                 "+", var("s"))>>)
      [] i = 11 ->  \* mut g = fn() { t = 9; t }; mut f = fn() { t = 1; g(); t }; f()
            pProgram(<<letmut("g", pFunction(<<>>, <<let("t", num("9")), var("t")>>)),
                       letmut("f", pFunction(<<>>,
                           <<let("t", num("1")), call0(var("g")), var("t")>>)),
                       call0(var("f"))>>)
      [] i = 12 ->  \* mut f = fn() { loc = 1 }; f(); loc
            pProgram(<<letmut("f", pFunction(<<>>, <<let("loc", num("1"))>>)),
                       call0(var("f")),
                       var("loc")>>)

FramePrograms == {<<"frame", i, 0, 0>> : i \in 1..12}

Suites == {"bind", "blk", "logic", "err", "agg", "cond", "call", "loop", "idx", "ari", "txn",
           "frame"}
WideSuites == {"logic", "cond", "agg", "idx", "ari"}
RunsOf(s) == IF s \in WideSuites THEN MaxRunsWide ELSE MaxRuns

Programs(s) ==
    CASE s = "bind"  -> BindPrograms
      [] s = "blk"   -> BlkPrograms
      [] s = "logic" -> LogicPrograms
      [] s = "err"   -> ErrPrograms
      [] s = "agg"   -> ArrPrograms \cup ObjPrograms
      [] s = "cond"  -> CondPrograms
      [] s = "call"  -> CallPrograms
      [] s = "loop"  -> LoopPrograms
      [] s = "idx"   -> IdxPrograms
      [] s = "ari"   -> AriPrograms
      [] s = "txn"   -> TxnPrograms
      [] s = "frame" -> FramePrograms

Source(p) ==
    CASE p[1] = "bind" -> BindSource(p[2])
      [] p[1] = "blk"  -> BlkSource(p[2], p[3], p[4])
      [] p[1] \in {"or", "and"} -> LogicSource(p)
      [] p[1] = "err"  -> ErrSource(p[2])
      [] p[1] = "arr"  -> ArrSource(p[2], p[3], p[4])
      [] p[1] = "obj"  -> ObjSource(p[2], p[3], p[4])
      [] p[1] = "cond" -> CondSource(p[2], p[3], p[4])
      [] p[1] = "call" -> CallSource(p[2], p[3], p[4])
      [] p[1] = "loop" -> LoopSource(p[2], p[3])
      [] p[1] = "idx"  -> IdxSource(p[2], p[3], p[4])
      [] p[1] = "ari"  -> AriSource(p[2], p[3], p[4])
      [] p[1] = "txn"  -> TxnSource(p[2], p[3])
      [] p[1] = "frame" -> FrameSource(p[2])

(***************************************************************************)
(* The driver.  The host constructs the root environment, installs the      *)
(* built-in functions and then calls run any number of times on it.         *)
(***************************************************************************)
Init ==
    /\ pc = "new"
    /\ envs = <<NewEnvironment>>
    /\ arrays = <<>>
    /\ objects = <<>>
    /\ funcs = StaticFunctions
    /\ out = <<>>
    /\ out_value = UndefinedV
    /\ out_message = NoMsg
    /\ returned = "none"
    /\ prog = NoProgram
    /\ log = <<>>
    /\ runs = 0
    /\ suite \in Suites

\* setup_built_in_functions(*env)
setup_built_in_functions ==
    /\ pc = "new"
    /\ pc' = "ready"
    /\ funcs' = funcs \o << BuiltIn("puts", <<Parameter("arg", TRUE)>>),
                            BuiltIn("assert", <<Parameter("arg", TRUE)>>) >>
    /\ envs' = initialize(
                 initialize(envs, 1, "puts", FunctionV(Len(funcs) + 1), FALSE),
                 1, "assert", FunctionV(Len(funcs) + 2), FALSE)
    /\ UNCHANGED <<arrays, objects, out, out_value, out_message, returned,
                   prog, log, runs, suite>>

\* what run does with the outcome r of Eval::eval(*ast, env)
Finish(p, r) ==
    /\ envs' = r.st.envs
    /\ arrays' = r.st.arrays
    /\ objects' = r.st.objects
    /\ funcs' = r.st.funcs
    /\ out' = r.st.out
    /\ log' = r.st.log
    /\ prog' = p
    /\ runs' = runs + 1
    /\ UNCHANGED suite
    /\ CASE r.status = "ok" ->              \* val = ...; return true
              /\ out_value' = r.val
              /\ returned' = "true"
              /\ pc' = "ready"
              /\ UNCHANGED out_message
         [] r.status = "runtime_error" ->   \* caught: msg = e.what(); return false
              /\ out_message' = r.msg
              /\ returned' = "false"
              /\ pc' = "ready"
              /\ UNCHANGED out_value
         [] r.status = "logic_error" ->     \* not caught: the exception leaves run
              /\ returned' = "exception"
              /\ pc' = "escaped"
              /\ UNCHANGED <<out_value, out_message>>
         [] r.status = "signal" ->          \* the process is killed
              /\ returned' = "nothing"
              /\ pc' = "killed"
              /\ UNCHANGED <<out_value, out_message>>
         [] r.status = "diverge" ->         \* run does not return
              /\ returned' = "nothing"
              /\ pc' = "hung"
              /\ UNCHANGED <<out_value, out_message>>

\* run(path, env, expr, len, val, msg, print_ast) on a source that parses
run(p) ==
    /\ pc = "ready"
    /\ runs < RunsOf(suite)
    /\ LET st0 == Store(envs, arrays, objects, funcs, out, <<>>, MaxFuel, "trap")
           r0  == Eval(Source(p), 1, st0)
       IN  \E ub \in (IF r0.status = "signal" THEN UBOutcomes ELSE {"trap"}) :
              Finish(p, IF ub = "trap" THEN r0
                        ELSE Eval(Source(p), 1, [st0 EXCEPT !.ub = ub]))

\* run on a source that does not parse: parser.log has set msg to
\* path:ln:col: message, and run returns false
ParseErrorMsg(ln, col) == Msg("syntax error", "", ln, col)
run_parse_error(col) ==
    /\ pc = "ready"
    /\ runs < RunsOf(suite)
    /\ out_message' = ParseErrorMsg(1, col)
    /\ returned' = "false"
    /\ prog' = <<"unparsable", col, 0, 0>>
    /\ log' = <<>>
    /\ runs' = runs + 1
    /\ UNCHANGED <<pc, envs, arrays, objects, funcs, out, out_value, suite>>

Next ==
    \/ setup_built_in_functions
    \/ \E p \in Programs(suite) : run(p)
    \/ \E col \in 1..2 : run_parse_error(col)

Spec == Init /\ [][Next]_vars

InitBind == Init /\ suite = "bind"
SpecBind == InitBind /\ [][Next]_vars
InitBlk == Init /\ suite = "blk"
SpecBlk == InitBlk /\ [][Next]_vars
InitLogic == Init /\ suite = "logic"
SpecLogic == InitLogic /\ [][Next]_vars
InitErr == Init /\ suite = "err"
SpecErr == InitErr /\ [][Next]_vars
InitAgg == Init /\ suite = "agg"
SpecAgg == InitAgg /\ [][Next]_vars
InitCond == Init /\ suite = "cond"
SpecCond == InitCond /\ [][Next]_vars
InitCall == Init /\ suite = "call"
SpecCall == InitCall /\ [][Next]_vars
InitLoop == Init /\ suite = "loop"
SpecLoop == InitLoop /\ [][Next]_vars
InitIdx == Init /\ suite = "idx"
SpecIdx == InitIdx /\ [][Next]_vars
InitAri == Init /\ suite = "ari"
SpecAri == InitAri /\ [][Next]_vars
InitTxn == Init /\ suite = "txn"
SpecTxn == InitTxn /\ [][Next]_vars
InitFrame == Init /\ suite = "frame"
SpecFrame == InitFrame /\ [][Next]_vars

(***************************************************************************)
(* Properties                                                               *)
(***************************************************************************)
\* the frames of the chain of e, innermost first
RECURSIVE ChainOf(_, _)
ChainOf(es, e) == IF e = 0 THEN <<>> ELSE <<e>> \o ChainOf(es, es[e].outer)

\* the positions in a chain at which the name s is bound
BoundAt(es, c, s) == {i \in 1..Len(c) : s \in DOMAIN es[c[i]].dic}
Least(S) == CHOOSE i \in S : \A j \in S : i <= j

\* every name bound in some frame
AllNames(es) == UNION {DOMAIN es[e].dic : e \in 1..Len(es)}

Events(kind) == {i \in 1..Len(log) : log[i].ev = kind}

\* C1, on the ASSIGNMENTs of a run: an ASSIGNMENT to a name whose innermost
\* binding on the chain is immutable throws "immutable variable", ends the
\* run with that message and changes no binding; one to a mutable binding
\* stores the value in that binding.
C1_Assignments ==
    \A i \in Events("assign") :
        IF ~log[i].mut
        THEN /\ i = Len(log)
             /\ returned = "false"
             /\ out_message = ImmutableVarMsg(log[i].name)
             /\ log[i].post = log[i].pre
             /\ envs = log[i].pre
        ELSE log[i].post[log[i].target].dic[log[i].name] = Symbol(log[i].val, TRUE)

\* C1, the two programs of the specification, run on a fresh environment
C1_Examples ==
    /\ prog = <<"bind", 1, 0, 0>> /\ runs = 1
          => returned = "true" /\ out_value = LongV(2)
    /\ prog = <<"bind", 2, 0, 0>> /\ runs = 1
          => /\ returned = "false"
             /\ out_message = ImmutableVarMsg("x")
             /\ envs[1].dic["x"] = Symbol(LongV(1), FALSE)

\* C1, over time: a binding that is immutable keeps its value and its flag
\* through every later run
C1_Frozen ==
    \A e \in 1..Len(envs) : \A s \in DOMAIN envs[e].dic :
        ~envs[e].dic[s].mut =>
            /\ e <= Len(envs')
            /\ s \in DOMAIN envs'[e].dic
            /\ envs'[e].dic[s] = envs[e].dic[s]

\* C1: once a name is bound with mut = false, every later ASSIGNMENT to it
\* on a chain that reaches the binding fails with "immutable variable" and
\* leaves the binding unchanged; a binding introduced with mut accepts the
\* assignment.
C1_ImmutableBinding ==
    /\ [](C1_Assignments /\ C1_Examples)
    /\ [][C1_Frozen]_vars

\* an ASSIGNMENT in a call frame was refused because the binding it reaches in
\* an outer frame is immutable, and one to a mutable binding was accepted in
\* an earlier or the same run
C1_Witness ==
    /\ \E i \in Events("assign") :
          ~log[i].mut /\ log[i].target # log[i].env /\ returned = "false"
    /\ runs = 2

\* C4, get: in every frame, for every name, get finds the binding of the first
\* frame of the chain that binds the name, and throws when no frame does
C4_Get ==
    \A e \in 1..Len(envs) : \A s \in AllNames(envs) :
        LET c  == ChainOf(envs, e)
            at == BoundAt(envs, c, s)
        IN  IF at = {}
            THEN ~has(envs, e, s) /\ get(envs, e, s).exc = "runtime_error"
            ELSE /\ has(envs, e, s)
                 /\ get(envs, e, s) = [exc |-> "none", val |-> envs[c[Least(at)]].dic[s].val]

\* C4, assign: an accepted ASSIGNMENT to a bound name changes the value of
\* the innermost binding of the name and nothing else: no other binding, no
\* new binding in the current frame
C4_Assign ==
    \A i \in Events("assign") :
        LET c  == ChainOf(log[i].pre, log[i].env)
            at == BoundAt(log[i].pre, c, log[i].name)
        IN  /\ at # {}
            /\ log[i].target = c[Least(at)]
            /\ log[i].mut =>
                  log[i].post = [log[i].pre EXCEPT
                                   ![log[i].target].dic[log[i].name].val = log[i].val]

\* C4, the program with t bound in the root frame and in a call frame, and
\* assigned from a frame inside both
C4_Example ==
    prog = <<"bind", 15, 0, 0>> /\ runs = 1
        => returned = "true" /\ out_value = LongV(91)

\* C4: get returns the value of the innermost binding; assign on a name
\* bound only in an outer frame updates that binding and nothing else.
C4_InnermostBinding == C4_Get /\ C4_Assign /\ C4_Example

\* an accepted ASSIGNMENT from a frame that does not bind the name, to the
\* middle one of three frames, whose outer frame binds the name as well
C4_Witness ==
    \E i \in Events("assign") :
        LET c == ChainOf(log[i].pre, log[i].env)
        IN  /\ log[i].mut
            /\ log[i].target # log[i].env
            /\ Cardinality(BoundAt(log[i].pre, c, log[i].name)) >= 2
            /\ returned = "true"

\* C5, on the calls of a run: a closure is invoked on a fresh frame, whose
\* chain then is the frame itself followed by the chain of the environment
\* the FUNCTION expression was evaluated in
C5_Invocations ==
    \A i \in Events("invoke") :
        LET callEnv == log[i].env
            f       == funcs[log[i].val.n]
        IN  /\ f.kind = "closure"
            /\ log[i].target = f.env
            /\ log[i].pre[callEnv].outer = 0
            /\ ChainOf(log[i].post, callEnv) = <<callEnv>> \o ChainOf(log[i].pre, f.env)

\* C5, the programs: the closure made by mk(7) yields 7 from every call site
C5_Examples ==
    /\ prog = <<"bind", 9, 0, 0>> /\ runs = 1 => returned = "true" /\ out_value = LongV(7)
    /\ prog = <<"bind", 10, 0, 0>> /\ runs = 1 => returned = "true"
    /\ prog = <<"bind", 10, 0, 0>> /\ returned = "true" => out_value = LongV(78)
    /\ prog = <<"bind", 11, 0, 0>> /\ runs = 1 => returned = "true"
    /\ prog = <<"bind", 11, 0, 0>> /\ returned = "true" => out_value = LongV(7)
    /\ prog = <<"bind", 12, 0, 0>> /\ runs = 1 => returned = "true" /\ out_value = LongV(1)

\* C5: a function value is a lexical closure: its free variables resolve
\* through the fresh call frame and then the chain the FUNCTION expression
\* was evaluated in, not the caller's chain.
C5_LexicalClosure == C5_Invocations /\ C5_Examples

\* a closure was called from a frame that is not on its chain and that binds
\* the name n the closure reads, and the run returned
C5_Witness ==
    \E i \in Events("invoke") :
        /\ i > 1
        /\ log[i - 1].ev = "call"
        /\ log[i - 1].target = log[i].env
        /\ log[i - 1].env # 1
        /\ log[i - 1].env \notin {ChainOf(envs, log[i].env)[k] :
                                     k \in 1..Len(ChainOf(envs, log[i].env))}
        /\ "n" \in DOMAIN envs[log[i - 1].env].dic
        /\ returned = "true"

\* the value the statements j; k of a block leave: that of the last one
BlkAtomValue(j) ==
    CASE j = 1 -> LongV(1)
      [] j = 2 -> StringV(<<97>>)
      [] j = 3 -> LongV(5)
BlkValue(j, k) ==
    IF k # 0 THEN BlkAtomValue(k) ELSE IF j # 0 THEN BlkAtomValue(j) ELSE UndefinedV

\* the number of statements mut w = 5 among j; k
BlkEffects(j, k) == (IF j = 3 THEN 1 ELSE 0) + (IF k = 3 THEN 1 ELSE 0)

\* C2, the value: the block of an IF branch, of an else branch and of a
\* function body yields the value of its last statement, Undefined when it
\* is empty
C2_Values ==
    prog[1] = "blk" /\ prog[2] \in 1..4
        => returned = "true" /\ out_value = BlkValue(prog[3], prog[4])

\* C2, the environment: every statement of the block is evaluated, in order,
\* in the environment the block is evaluated in: the root frame for an IF
\* at top level, the call frame for a function body
C2_Environment ==
    prog[1] = "blk" /\ prog[2] \in 1..4 =>
        LET ws == {i \in 1..Len(log) : log[i].name = "w"}
        IN  /\ Cardinality(ws) = BlkEffects(prog[3], prog[4])
            /\ \A i \in ws :
                  /\ log[i].val = LongV(5)
                  /\ log[i].post[log[i].target].dic["w"] = Symbol(LongV(5), TRUE)
                  /\ IF prog[2] = 3
                     THEN \E c \in Events("call") : c < i /\ log[c].target = log[i].env
                     ELSE log[i].env = 1 /\ envs[1].dic["w"] = Symbol(LongV(5), TRUE)

\* C2, the programs: a WHILE body runs its statements in the loop's
\* environment, a block shares the frame of the code around it, and the
\* recursive function of the specification returns through nested blocks
C2_Examples ==
    /\ prog = <<"blk", 5, 0, 0>> => returned = "true" /\ out_value = LongV(2)
    /\ prog = <<"blk", 6, 0, 0>> => returned = "true" /\ out_value = LongV(5)
    /\ prog = <<"blk", 7, 0, 0>> => returned = "true" /\ out_value = LongV(1)

\* C2: a BLOCK (the body of an IF branch, a WHILE loop or a FUNCTION)
\* evaluates its STATEMENTS in the given environment and returns the value
\* of the last statement, Undefined when it is empty.
C2_BlockValue == C2_Values /\ C2_Environment /\ C2_Examples

\* the second run of fn() { 1; mut w = 5 }() has returned 5, and the run of
\* a program with an empty block has returned Undefined before it
C2_Witness ==
    /\ prog = <<"blk", 3, 1, 3>>
    /\ runs = 2
    /\ returned = "true"
    /\ out_value = LongV(5)

\* Operands of the logical programs: the value of an operand that evaluates,
\* and the operands at which the evaluation of the expression ends
LogicValue(i) ==
    CASE i = 1 -> BoolV(TRUE)
      [] i = 2 -> BoolV(FALSE)
      [] i = 3 -> LongV(5)
      [] i = 4 -> StringV(<<97>>)
      [] i = 6 -> LongV(0)
      [] i = 7 -> LongV(7)
LogicTruthy == {1, 3, 7}
LogicFalsy  == {2, 6}
LogicString  == {4}
LogicUnbound == {5}
LogicUB      == {8}

\* the position of the operand that decides p, when to_bool is applied to
\* every operand that is evaluated
LogicStop(p) ==
    LET ops == LogicOps(p)
        S   == {k \in 1..Len(ops) :
                   \/ ops[k] \in LogicString \cup LogicUnbound \cup LogicUB
                   \/ ops[k] \in (IF p[1] = "or" THEN LogicTruthy ELSE LogicFalsy)}
    IN  IF S = {} THEN Len(ops) ELSE Least(S)

\* the same, when the last operand is returned as it is
LogicStopLast(p) ==
    LET ops == LogicOps(p)
        S   == {k \in 1..Len(ops) :
                   \/ ops[k] \in LogicUnbound \cup LogicUB
                   \/ ops[k] \in LogicString /\ k < Len(ops)
                   \/ ops[k] \in (IF p[1] = "or" THEN LogicTruthy ELSE LogicFalsy)}
    IN  IF S = {} THEN Len(ops) ELSE Least(S)

\* the values the operands up to the position k assign to w, in order
LogicEffects(p, k) ==
    LET ops  == SubSeq(LogicOps(p), 1, k)
        effs == SelectSeq(ops, LAMBDA i : i \in {6, 7})
    IN  [i \in 1..Len(effs) |-> LogicValue(effs[i])]

\* the run of p reaches the division by zero: its behaviour is undefined
LogicUndefined(p, k) == LogicOps(p)[k] \in LogicUB

\* the outcome of a run of p whose deciding operand is at position k: the
\* error of the operand, or its value
LogicOutcome(p, k, testLast) ==
    LET i == LogicOps(p)[k]
    IN  CASE i \in LogicUnbound ->
               returned = "false" /\ out_message = UndefinedVarMsg("nope")
          [] i \in LogicString /\ (testLast \/ k < Len(LogicOps(p))) ->
               returned = "false" /\ out_message = TypeErrorMsg
          [] OTHER -> returned = "true" /\ out_value = LogicValue(i)

\* C6, the result and the operands evaluated: the operands are evaluated in
\* order up to the deciding one, and no operand after it is evaluated
C6_Results ==
    prog \in LogicPrograms /\ ~LogicUndefined(prog, LogicStop(prog)) =>
        /\ LogicOutcome(prog, LogicStop(prog), TRUE)
        /\ [i \in 1..Len(log) |-> log[i].val] = LogicEffects(prog, LogicStop(prog))
        /\ \A i \in 1..Len(log) : log[i].name = "w" /\ log[i].env = 1

\* C6, the effects of a run: the root frame changes by the assignments of the
\* operands up to the deciding one, and by nothing else
C6_Effects ==
    prog' \in LogicPrograms /\ runs' = runs + 1
                           /\ ~LogicUndefined(prog', LogicStop(prog')) =>
        LET effs == LogicEffects(prog', LogicStop(prog'))
        IN  /\ Len(envs') = Len(envs)
            /\ arrays' = arrays /\ objects' = objects /\ out' = out
            /\ IF effs = <<>> THEN envs' = envs
               ELSE envs' = [envs EXCEPT ![1].dic =
                                ("w" :> Symbol(effs[Len(effs)], TRUE)) @@ @]

\* C6 as amended: LOGICAL_OR evaluates its operands left to right and
\* converts each one it evaluates, the last one included, with to_bool: it
\* returns the first operand that is truthy without evaluating any operand
\* after it, and the last operand when none is; an operand that is not a Bool
\* or a Long fails the evaluation with "type error." when it is reached.
\* LOGICAL_AND is the dual.
C6_ShortCircuit == []C6_Results /\ [][C6_Effects]_vars

\* C6 as stated: the last operand is returned when none before it decides,
\* whatever it is
C6_AsStated ==
    prog \in LogicPrograms /\ ~LogicUndefined(prog, LogicStopLast(prog)) =>
        /\ LogicOutcome(prog, LogicStopLast(prog), FALSE)
        /\ [i \in 1..Len(log) |-> log[i].val] = LogicEffects(prog, LogicStopLast(prog))

\* true || (mut w = 7) || ... has returned true and w is not bound, and so
\* has false && nope
C6_Witness ==
    /\ prog \in {<<"or", 1, 7, 0>>, <<"and", 2, 5, 0>>, <<"or", 3, 8, 7>>}
    /\ returned = "true"
    /\ log = <<>>
    /\ "w" \notin DOMAIN envs[1].dic

\* C3: for every program that parses, run returns true with out_value set
\* or false with out_message set; every error raised during evaluation is
\* converted into false plus a message and none leaves run.
C3_EveryErrorConverted ==
    prog \in ErrPrograms =>
        /\ pc = "ready"
        /\ \/ returned = "true"
           \/ returned = "false" /\ out_message # NoMsg

\* the length an array program leaves: the elements of the literal and one
\* more for every push
ArrPushes(h) == IF h = 0 THEN 0 ELSE 1
ArrExpected(p) ==
    IF p[2] = 9 THEN LongV(2)
    ELSE LongV(11 * (p[2] + ArrPushes(p[3]) + ArrPushes(p[4])))

\* C7: arrays have reference semantics: after pushes through any handle of
\* an array, size() through every handle is the initial length plus the
\* number of pushes; a = [1]; a.push(2); a.size() is Long(2).
C7_ReferenceSemantics ==
    prog \in ArrPrograms /\ runs = 1 =>
        returned = "true" /\ out_value = ArrExpected(prog)

ObjLiteralValue(i) ==
    CASE i = 1 -> LongV(1)
      [] i = 2 -> LongV(2)
      [] i = 3 -> StringV(<<97>>)
      [] i = 4 -> BoolV(TRUE)

\* C8: an OBJECT literal that names a property more than once yields an
\* object whose property holds the value of the last occurrence, and that
\* has the property once.
C8_LastDuplicateWins ==
    prog \in ObjPrograms =>
        /\ returned = "true"
        /\ out_value = IF prog[4] = 1 THEN LongV(1) ELSE ObjLiteralValue(prog[3])

\* The operands of the comparisons: their kinds, what to_bool and to_long
\* make of the Bool and Long ones, and the rank of the strings
CondKind(i) ==
    CASE i = 1        -> "Undefined"
      [] i \in {2, 3} -> "Bool"
      [] i \in 4..6   -> "Long"
      [] i \in {7, 8} -> "String"
      [] i = 9        -> "Object"
      [] i = 10       -> "Array"
      [] i = 11       -> "Function"
CondScalars == {"Undefined", "Bool", "Long", "String"}
CondAsLong(i) == CASE i = 2 -> 0 [] i = 3 -> 1 [] i = 4 -> 0 [] i = 5 -> 1 [] i = 6 -> 2
CondAsBool(i) == IF CondAsLong(i) = 0 THEN 0 ELSE 1
CondRank(i)   == i - 6

CondHolds(op, a, b) ==
    CASE op = 1 -> a = b
      [] op = 2 -> a # b
      [] op = 3 -> a <= b
      [] op = 4 -> a < b
      [] op = 5 -> a >= b
      [] op = 6 -> a > b

\* the comparisons that fail
CondFails(l, r) ==
    \/ CondKind(l) \in {"Object", "Array", "Function"}
    \/ CondKind(l) \in {"Bool", "Long"} /\ CondKind(r) \notin {"Bool", "Long"}
    \/ CondKind(l) = "String" /\ CondKind(r) # "String"

\* the result of the others
CondResult(l, op, r) ==
    CASE CondKind(l) = "Undefined" ->
             \/ op = 1 /\ CondKind(r) = "Undefined"
             \/ op = 2 /\ CondKind(r) # "Undefined"
      [] CondKind(l) = "Bool"   -> CondHolds(op, CondAsBool(l), CondAsBool(r))
      [] CondKind(l) = "Long"   -> CondHolds(op, CondAsLong(l), CondAsLong(r))
      [] CondKind(l) = "String" -> CondHolds(op, CondRank(l), CondRank(r))

CallName(i)     == IF i = 1 THEN "p1" ELSE "p2"
CallArgValue(i) == IF i = 1 THEN LongV(10) ELSE LongV(20)

\* what the body of the function returns once the parameters are bound
CallOutcome(k, c) ==
    CASE CallBody(c) = 0 ->
             /\ returned = "true"
             /\ out_value = (CASE k = 0 -> LongV(7) [] k = 1 -> LongV(10) [] k = 2 -> LongV(120))
      [] OTHER ->
             IF CallMut(c, CallBody(c))
             THEN returned = "true" /\ out_value = LongV(5)
             ELSE returned = "false" /\ out_message = ImmutableVarMsg(CallName(CallBody(c)))

\* C10, fewer arguments than parameters: the call fails with "arguments
\* error", and no argument is evaluated
C10_Shortage ==
    prog \in CallPrograms /\ prog[3] < prog[2] =>
        /\ returned = "false"
        /\ out_message = ArgumentsErrorMsg
        /\ log = <<>>

\* C10, at least as many: the frame of the call did not exist before, the
\* argument i is evaluated in the caller's environment and bound to the
\* parameter i with its mut flag, the arguments after the last parameter are
\* not evaluated, and the body runs on the frame
C10_Binding ==
    prog \in CallPrograms /\ prog[3] >= prog[2] =>
        LET k == prog[2]  c == prog[4] IN
        /\ Cardinality(Events("call")) = 1
        /\ Cardinality(Events("bind")) = k
        /\ \A i \in Events("call") :
              LET callEnv == log[i].target IN
              /\ callEnv > Len(log[i].pre)
              /\ log[i].env = 1
              /\ DOMAIN log[i].post[callEnv].dic =
                    {"self", "__LINE__", "__COLUMN__"} \cup {CallName(j) : j \in 1..k}
              /\ \A j \in 1..k :
                    log[i].post[callEnv].dic[CallName(j)] =
                        Symbol(CallArgValue(j), CallMut(c, j))
              /\ \A b \in Events("bind") :
                    /\ b < i
                    /\ log[b].env = callEnv
                    /\ log[b].name = CallName(log[b].target)
                    /\ log[b].val = CallArgValue(log[b].target)
                    /\ log[b].mut = CallMut(c, log[b].target)
                    /\ log[b].post[callEnv].dic[log[b].name] = Symbol(log[b].val, log[b].mut)
              /\ \E v \in Events("invoke") : v > i /\ log[v].env = callEnv
        /\ Cardinality({i \in 1..Len(log) : log[i].name = "e"}) = (IF k = 2 THEN 1 ELSE 0)
        /\ \A i \in 1..Len(log) : log[i].name = "e" => log[i].env = 1 /\ log[i].target = 1
        /\ CallOutcome(k, c)

\* C10: a call with fewer arguments than parameters fails with "arguments
\* error"; one with at least as many binds the parameter i to the value of
\* the argument i, with the declared mut flag, in a fresh call frame, and
\* ignores the arguments beyond the parameter count.
C10_Arguments == C10_Shortage /\ C10_Binding

\* fn(mut p1) { p1 }(10, (mut e = 20), nope) has returned 10 and e is not
\* bound
C10_Witness ==
    /\ prog = <<"call", 1, 3, 3>>
    /\ returned = "true"
    /\ out_value = LongV(10)
    /\ "e" \notin DOMAIN envs[1].dic

\* ---- C11 ----
\* the loops of the family whose condition becomes false, and how many
\* times the body of each has to run for that
LoopTerminates(p) == p[3] \in 0..2 \/ p[2] = 0
LoopCount(p)      == IF p[3] = 3 THEN 0 ELSE p[2]
\* the value the k-th evaluation of the body assigns to i
LoopStep(p, k)    == IF p[3] = 2 THEN p[2] - k ELSE k
\* the value of the program: the loop itself when it is the last statement
LoopResult(p) ==
    CASE p[3] = 0 -> LongV(p[2])
      [] p[3] = 1 -> UndefinedV
      [] p[3] = 2 -> LongV(0)
      [] p[3] = 3 -> LongV(0)

\* C11: a WHILE loop whose body makes its condition eventually false
\* terminates: after a run of 'mut i = 0; while i < n { i = i + 1 }; i' (and
\* of the loop that counts down from n) run has returned true, the body has
\* been evaluated exactly n times (the log holds the binding of i and then
\* exactly n assignments to i, the k-th of the value the k-th pass computes),
\* the loop itself yields Undefined (the result of the program that ends
\* with the loop) and the result of the program is Long(n).
C11_WhileTerminates ==
    (prog[1] = "loop" /\ LoopTerminates(prog)) =>
        /\ returned = "true"
        /\ pc = "ready"
        /\ out_value = LoopResult(prog)
        /\ Len(log) = LoopCount(prog) + 1
        /\ log[1].name = "i"
        /\ \A k \in 1..LoopCount(prog) :
              /\ log[k + 1].ev = "assign"
              /\ log[k + 1].name = "i"
              /\ log[k + 1].val = LongV(LoopStep(prog, k))
        /\ "i" \in DOMAIN envs[1].dic
        /\ envs[1].dic["i"].val = LongV(IF prog[3] = 2 THEN 0 ELSE LoopCount(prog))

\* the program of the claim: n = 3, three passes, result Long(3), reached on
\* an environment in which an earlier run has left i at another value
C11_Witness ==
    /\ prog = <<"loop", 3, 0, 0>>
    /\ returned = "true"
    /\ out_value = LongV(3)
    /\ Len(log) = 4
    /\ log[1].ev = "assign"
    /\ log[4].val = LongV(3)

\* ---- C12 ----
\* the programs of the family in which a is an array: the literal of one
\* element is replaced by its element, so there a is a Long
IdxArray(p)   == p[4] % 2 = 1 \/ p[2] # 1
IdxInRange(p) == 0 <= p[3] /\ p[3] < p[2]
IdxValues     == <<LongV(5), LongV(7), LongV(8)>>

\* C12: for an array a of length n and an index that evaluates to Long idx,
\* a[idx] is the element at idx when 0 <= idx < n; otherwise, idx negative
\* or >= n, no error is raised and a[idx] is the array a itself: the value
\* of the program is the value bound to a, and a push through b = a[idx]
\* is a push on a.
C12_IndexSuffix ==
    (prog[1] = "idx" /\ IdxArray(prog)) =>
        LET n == prog[2]
            a == envs[1].dic["a"].val
        IN  /\ a.type = "Array"
            /\ prog[4] < 2 =>
                  /\ returned = "true"
                  /\ arrays[a.n] = SubSeq(IdxValues, 1, n)
                  /\ out_value = IF IdxInRange(prog) THEN IdxValues[prog[3] + 1] ELSE a
            /\ (prog[4] >= 2 /\ IdxInRange(prog)) =>
                  /\ envs[1].dic["b"].val = IdxValues[prog[3] + 1]
                  /\ arrays[a.n] = SubSeq(IdxValues, 1, n)
            /\ (prog[4] >= 2 /\ ~IdxInRange(prog)) =>
                  /\ returned = "true"
                  /\ envs[1].dic["b"].val = a
                  /\ arrays[a.n] = SubSeq(IdxValues, 1, n) \o <<LongV(9)>>
                  /\ out_value = LongV(n + 1)

\* a[-1] on an array of two elements: b = a[-1] is a, and the push through b
\* makes a.size() 3
C12_Witness ==
    /\ prog = <<"idx", 2, -1, 3>>
    /\ returned = "true"
    /\ envs[1].dic["b"].val = envs[1].dic["a"].val
    /\ envs[1].dic["a"].val.type = "Array"
    /\ out_value = LongV(3)

\* ---- C13 ----
\* the kinds of the operands of the arithmetic programs, and the numbers
\* the Long and Bool ones stand for
AriKind(i) ==
    CASE i = 1        -> "Undefined"
      [] i \in {2, 3} -> "Bool"
      [] i \in 4..7   -> "Long"
      [] i = 8        -> "String"
      [] i = 9        -> "Object"
      [] i = 10       -> "Array"
      [] i = 11       -> "Function"
AriNumber(i) ==
    CASE i = 2 -> 0 [] i = 3 -> 1 [] i = 4 -> 0 [] i = 5 -> 1 [] i = 6 -> 2 [] i = 7 -> -5

\* the quotient that truncates toward zero and the remainder that has the
\* sign of the dividend, for b # 0
AriQuotient(a, b) ==
    CHOOSE q \in (0 - Abs(a))..Abs(a) :
        /\ Abs(a - q * b) < Abs(b)
        /\ (a - q * b = 0 \/ (a - q * b < 0) = (a < 0))
AriRemainder(a, b) == a - b * AriQuotient(a, b)

\* the operators folded from the left over the numbers of the operands
AriFold(p) ==
    LET a == AriNumber(p[2])
        b == AriNumber(p[3])
    IN  CASE p[4] = 1 -> a + b
          [] p[4] = 2 -> a - b
          [] p[4] = 3 -> a * b
          [] p[4] = 4 -> AriQuotient(a, b)
          [] p[4] = 5 -> AriRemainder(a, b)
          [] p[4] = 6 -> (a - b) - 2
          [] p[4] = 7 -> 2 + (a * b)

\* the programs that divide by zero (or take the remainder): what they do
\* is undefined, and they are left out of the statements below
AriUndefined(p) ==
    /\ p[4] \in {4, 5, 8}
    /\ AriKind(p[2]) \in {"Bool", "Long"}
    /\ AriKind(p[3]) \in {"Bool", "Long"}
    /\ AriNumber(p[3]) = 0

\* some operand of p is of a kind that is not in accepted (the third
\* operand of the form 8 is a String)
AriRejected(p, accepted) ==
    AriKind(p[2]) \notin accepted \/ AriKind(p[3]) \notin accepted \/ p[4] = 8

AriOutcome(accepted) ==
    (prog[1] = "ari" /\ ~AriUndefined(prog)) =>
        IF AriRejected(prog, accepted)
        THEN returned = "false" /\ out_message = TypeErrorMsg
        ELSE returned = "true" /\ out_value = LongV(AriFold(prog))

\* C13 as amended: the arithmetic operators + - * / % accept Long and Bool
\* operands, a Bool counting as 0 or 1: an ADDITIVE or MULTIPLICATIVE
\* expression with an operand of another kind (Undefined, String, Object,
\* Array, Function) fails with 'type error.', and with all operands Long or
\* Bool the result is the Long obtained by folding the operators left to
\* right (the quotient truncated toward zero, the remainder with the sign of
\* the dividend; a zero divisor aside).
C13_Arithmetic == AriOutcome({"Long", "Bool"})

\* C13 as stated: only Long operands are accepted, a Bool operand fails with
\* 'type error.' like the other kinds.
C13_AsStated == AriOutcome({"Long"})

\* 2 + true * 2 is Long(4)
C13_Witness ==
    /\ prog = <<"ari", 3, 6, 7>>
    /\ returned = "true"
    /\ out_value = LongV(4)

\* ---- C14 ----
\* what the statements of the prefix e leave in the root environment: the
\* names they bind, the value of x and the elements of the array a
TxnNames(e) ==
    CASE e = 0 -> {} [] e \in {1, 2} -> {"x"} [] e = 3 -> {"a"} [] e = 4 -> {"x", "a"}
TxnX(e) == CASE e = 1 -> LongV(1) [] e = 2 -> LongV(2) [] e = 4 -> LongV(3)
TxnA(e) ==
    CASE e = 3 -> <<LongV(5), LongV(7), LongV(8)>>
      [] e = 4 -> <<LongV(5), LongV(7), LongV(8), LongV(9)>>

TxnFailed == prog[1] = "txn" /\ prog[3] \in TxnFailing

\* after a run that failed in the statement after the prefix: run has
\* returned false with a message, and the root environment holds what the
\* prefix bound, assigned and pushed
C14_Kept ==
    TxnFailed =>
        /\ returned = "false"
        /\ pc = "ready"
        /\ out_message # NoMsg
        /\ TxnNames(prog[2]) \subseteq DOMAIN envs[1].dic
        /\ "x" \in TxnNames(prog[2]) => envs[1].dic["x"].val = TxnX(prog[2])
        /\ "a" \in TxnNames(prog[2]) =>
              /\ envs[1].dic["a"].val.type = "Array"
              /\ arrays[envs[1].dic["a"].val.n] = TxnA(prog[2])

\* the step of a run that fails leaves out_value alone, and leaves every
\* binding of the root environment that the prefix does not touch, and every
\* array that existed, as it was
C14_Fails ==
    (runs' = runs + 1 /\ prog'[1] = "txn" /\ prog'[3] \in TxnFailing) =>
        /\ out_value' = out_value
        /\ \A s \in DOMAIN envs[1].dic \ TxnNames(prog'[2]) :
              s \in DOMAIN envs'[1].dic /\ envs'[1].dic[s] = envs[1].dic[s]
        /\ \A i \in 1..Len(arrays) : arrays'[i] = arrays[i]

\* the next run on the same environment reads what the earlier runs left:
\* x is the value bound to x, a.size() the length of the array bound to a
C14_Reads ==
    /\ (runs' = runs + 1 /\ prog' = <<"txn", 0, 4, 0>> /\ "x" \in DOMAIN envs[1].dic) =>
          returned' = "true" /\ out_value' = envs[1].dic["x"].val
    /\ (runs' = runs + 1 /\ prog' = <<"txn", 0, 5, 0>> /\ "a" \in DOMAIN envs[1].dic) =>
          returned' = "true" /\ out_value' = LongV(Len(arrays[envs[1].dic["a"].val.n]))

\* C14: evaluation is not transactional.  When run fails with a runtime
\* error in the k-th top-level statement, out_value is left exactly as the
\* caller passed it, and every binding created or updated and every array
\* push performed by the statements 1..k-1 remains in the shared root
\* environment and is visible to the next run on the same environment.
C14_NotTransactional ==
    /\ []C14_Kept
    /\ [][C14_Fails /\ C14_Reads]_vars

\* a.size() is Long(4) in the run after the one that bound a, pushed twice
\* and then failed on nope: the message of the failed run is still there
C14_Witness ==
    /\ prog = <<"txn", 0, 5, 0>>
    /\ runs = 2
    /\ returned = "true"
    /\ out_value = LongV(4)
    /\ out_message = UndefinedVarMsg("nope")
    /\ envs[1].dic["x"].val = LongV(3)

\* ---- C15 ----
\* the frames of the chain of e, as a set
FrameSet(es, e) == {ChainOf(es, e)[i] : i \in 1..Len(ChainOf(es, e))}

\* the call event of the call that the event r is the return of
CallOf(r) == CHOOSE c \in 1..(r - 1) : log[c].ev = "call" /\ log[c].target = log[r].target

\* the names a call binds in its frame before the body runs
CallNames(r) ==
    {"self", "__LINE__", "__COLUMN__"}
        \cup {funcs[log[r].val.n].params[i].name : i \in 1..Len(funcs[log[r].val.n].params)}

\* an assignment of a name that is not on the chain of the frame it is
\* evaluated in binds the name in that frame and changes no other frame; in
\* a function body the frame is the one made for the call
C15_Initialized ==
    \A i \in Events("initialize") :
        /\ log[i].target = log[i].env
        /\ Definer(log[i].pre, log[i].env, log[i].name) = 0
        /\ log[i].name \in DOMAIN log[i].post[log[i].env].dic
        /\ Len(log[i].post) = Len(log[i].pre)
        /\ \A k \in 1..Len(log[i].pre) : k # log[i].env => log[i].post[k] = log[i].pre[k]
        /\ log[i].env # 1 =>
              \E c \in 1..(i - 1) : log[c].ev = "call" /\ log[c].target = log[i].env

\* the frames the claim is about: the frame of the caller and the global one
FrameOuter(r) == {log[r].env, 1}

\* when a call has returned, the frame of the caller and the global frame
\* hold the names they held when the body started
C15_SameNames ==
    \A r \in Events("return") : \A e \in FrameOuter(r) :
        DOMAIN log[r].post[e].dic = DOMAIN log[r].pre[e].dic

\* the bindings of the frame e whose value is not the one it was when the
\* body of the call r started
FrameChanged(r, e) ==
    {s \in DOMAIN log[r].pre[e].dic :
        s \in DOMAIN log[r].post[e].dic /\ log[r].post[e].dic[s] # log[r].pre[e].dic[s]}

\* the assignments made between the call and its return
FrameAssigned(r) == {i \in (CallOf(r) + 1)..(r - 1) : log[i].ev = "assign"}

\* the names the call binds are in the frame of the call and in no frame
\* that existed before it
C15_Private ==
    \A r \in Events("return") :
        /\ CallNames(r) \subseteq DOMAIN log[r].post[log[r].target].dic
        /\ \A k \in 1..Len(log[CallOf(r)].pre) :
              CallNames(r) \cap (DOMAIN log[r].post[k].dic \ DOMAIN log[CallOf(r)].pre[k].dic) = {}

\* C15 as amended: call frames are local.  A name first assigned inside a
\* function body that is not defined anywhere on the callee's chain is
\* initialized in that call's fresh frame only; after the call returns, the
\* caller's frame and the global frame contain exactly the names they had
\* before, and the only bindings of theirs whose value may differ are
\* mutable bindings that the body, or the body of a function called during
\* the call, assigned, each on the defining chain of the function whose body
\* assigned it.  Parameters, self, __LINE__ and __COLUMN__ never appear in
\* an outer frame.
C15_LocalFrames ==
    /\ C15_Initialized
    /\ C15_SameNames
    /\ C15_Private
    /\ \A r \in Events("return") : \A e \in FrameOuter(r) : \A s \in FrameChanged(r, e) :
          /\ log[r].pre[e].dic[s].mut
          /\ \E i \in FrameAssigned(r) :
                /\ log[i].target = e
                /\ log[i].name = s
                /\ e \in FrameSet(log[i].pre, log[i].pre[log[i].env].outer)

\* C15 as stated: the bindings whose value may differ are mutable bindings
\* on the defining chain of the function that was called, assigned during
\* the call.
C15_AsStated ==
    /\ C15_Initialized
    /\ C15_SameNames
    /\ C15_Private
    /\ \A r \in Events("return") : \A e \in FrameOuter(r) : \A s \in FrameChanged(r, e) :
          /\ log[r].pre[e].dic[s].mut
          /\ e \in FrameSet(log[r].pre, funcs[log[r].val.n].env)
          /\ \E i \in FrameAssigned(r) : log[i].target = e /\ log[i].name = s

\* mut g = 1; mut f = fn() { g = 2; u = 3; g + u }; f() * 10 + g has returned
\* 52: the call of f has bound u in its own frame and has changed g, the
\* global frame has no u
C15_Witness ==
    /\ prog = <<"frame", 2, 0, 0>>
    /\ returned = "true"
    /\ out_value = LongV(52)
    /\ "u" \notin DOMAIN envs[1].dic
    /\ envs[1].dic["g"].val = LongV(2)
    /\ \E r \in Events("return") :
          /\ "u" \in DOMAIN log[r].post[log[r].target].dic
          /\ FrameChanged(r, 1) = {"g"}

====
